---- MODULE Spec2Model ----
(***************************************************************************)
(* bancho.py: the performance-rating pipeline (app/usecases/performance.py,*)
(* app/constants/nerfed_maps.py) and the batch recalculation tool          *)
(* (tools/recalc.py).                                                      *)
(*                                                                         *)
(* Floats.  A Python float is modelled as a record [k, v]: k = "fin" with  *)
(* v the value in units of 1/Scale (fixed point, four decimal digits), or  *)
(* k = "nan" / "inf" / "ninf" for the IEEE specials.  None is k = "none",  *)
(* a Python int is k = "int".  Multipliers are integers in units of        *)
(* 1/Scale (1.35 is 13500).                                                *)
(***************************************************************************)
EXTENDS Integers, Sequences, FiniteSets, TLC

Scale == 10^4

Fin(n) == [k |-> "fin", v |-> n]
Some(n) == [k |-> "int", v |-> n]
NaN == [k |-> "nan", v |-> 0]
PosInf == [k |-> "inf", v |-> 0]
NegInf == [k |-> "ninf", v |-> 0]
None == [k |-> "none", v |-> 0]

\* bool(x) of a number or None
Truthy(x) == x.k # "none" /\ ~(x.k \in {"fin", "int"} /\ x.v = 0)

\* x or 0.0
OrZero(x) == IF Truthy(x) THEN x ELSE Fin(0)

isnan(x) == x.k = "nan"
isinf(x) == x.k \in {"inf", "ninf"}

\* floor(x * m / d) without leaving the 32-bit range (0 < m, 0 < d, m * d < 2^31)
MulDiv(x, m, d) == (x \div d) * m + ((x % d) * m) \div d

\* x * m for a float x and a finite positive constant m (in units of 1/Scale)
FMul(x, m) == IF x.k = "fin" THEN Fin(MulDiv(x.v, m, Scale)) ELSE x

FNeg(x) ==
    CASE x.k = "fin" -> Fin(0 - x.v)
      [] x.k = "inf" -> NegInf
      [] x.k = "ninf" -> PosInf
      [] OTHER -> x

FAdd(x, y) ==
    CASE isnan(x) \/ isnan(y) -> NaN
      [] x.k = "inf" -> IF y.k = "ninf" THEN NaN ELSE PosInf
      [] x.k = "ninf" -> IF y.k = "inf" THEN NaN ELSE NegInf
      [] y.k = "inf" -> PosInf
      [] y.k = "ninf" -> NegInf
      [] OTHER -> Fin(x.v + y.v)

FSub(x, y) == FAdd(x, FNeg(y))

\* x > y; False as soon as one side is NaN
FGt(x, y) ==
    /\ ~isnan(x)
    /\ ~isnan(y)
    /\ \/ x.k = "inf" /\ y.k # "inf"
       \/ y.k = "ninf" /\ x.k # "ninf"
       \/ x.k = "fin" /\ y.k = "fin" /\ x.v > y.v

\* x >= c for a number x and a finite constant c (in units of 1/Scale)
FGe(x, c) == x.k = "inf" \/ (x.k = "fin" /\ x.v >= c)

\* max(a, b): the first argument unless the second compares greater
PyMax(a, b) == IF FGt(b, a) THEN b ELSE a

\* round(x, 3) of a finite x, ties to even
Round3(x) ==
    LET q == x.v \div 10
        r == x.v % 10
    IN  IF r < 5 \/ (r = 5 /\ q % 2 = 0) THEN Fin(q * 10) ELSE Fin((q + 1) * 10)

\* mods & bit for a power of two bit
HasBit(mods, bit) == (mods \div bit) % 2 = 1

\* mods | bit
OrBit(mods, bit) == IF HasBit(mods, bit) THEN mods ELSE mods + bit

NIGHTCORE == 512
DOUBLETIME == 64

(***************************************************************************)
(* app/constants/nerfed_maps.py.  Titles and artists are sequences of      *)
(* one-character strings; the empty sequence stands for None or "".        *)
(***************************************************************************)
NERFED_TITLE_PATTERNS ==
    << <<"s","p","e","e","d","-","u","p">>,
       <<"s","p","e","e","d"," ","u","p">>,
       <<"s","p","e","d"," ","u","p">>,
       <<"s","p","e","e","d","-","u","p"," ","m","a","p">>,
       <<"s","p","e","e","d"," ","u","p"," ","m","a","p"," ","p","a","c","k">>,
       <<"s","p","e","d"," ","u","p"," ","p","a","c","k">>,
       <<"o","v","e","r"," ","S","p","e","e","d","-","u","p"," ","p","a","c","k",
         "o","v","e","r"," ","s","p","e","e","d","-","u","p"," ","p","a","c","k">> >>

NERFED_MAPSET_IDS == {}

MAPPER_NERFS ==
    [c \in {"None1637", "[-Omni-]", "juliet", "xAsuna", "quantumvortex", "Toffery2002",
            "helloisuck", "hool", "Learner_", "tazuwik", "kselon", "DTtheCarry"} |->
        CASE c = "None1637" -> 7000
          [] c \in {"[-Omni-]", "juliet", "xAsuna", "quantumvortex", "helloisuck"} -> 9500
          [] c \in {"Toffery2002", "DTtheCarry"} -> 6500
          [] c \in {"hool", "tazuwik", "kselon"} -> 7500
          [] c = "Learner_" -> 4000]

MAPSET_NERF_MULTIPLIER == 8500

LowerChar(c) ==
    CASE c = "A" -> "a" [] c = "B" -> "b" [] c = "C" -> "c" [] c = "D" -> "d"
      [] c = "E" -> "e" [] c = "F" -> "f" [] c = "G" -> "g" [] c = "H" -> "h"
      [] c = "I" -> "i" [] c = "J" -> "j" [] c = "K" -> "k" [] c = "L" -> "l"
      [] c = "M" -> "m" [] c = "N" -> "n" [] c = "O" -> "o" [] c = "P" -> "p"
      [] c = "Q" -> "q" [] c = "R" -> "r" [] c = "S" -> "s" [] c = "T" -> "t"
      [] c = "U" -> "u" [] c = "V" -> "v" [] c = "W" -> "w" [] c = "X" -> "x"
      [] c = "Y" -> "y" [] c = "Z" -> "z" [] OTHER -> c

\* str.lower()
Lower(s) == [i \in 1..Len(s) |-> LowerChar(s[i])]

\* pattern in s
Contains(pattern, s) ==
    \E i \in 1..(Len(s) - Len(pattern) + 1) :
        SubSeq(s, i, i + Len(pattern) - 1) = pattern

\* a resolver that looks at the mapper before the patterns
should_nerf_map_mapper_first(title, artist, creator, set_id, mods) ==
    LET is_relax == HasBit(mods, 128)
        title_lower == Lower(title)
        artist_lower == Lower(artist)
    IN  IF creator \in DOMAIN MAPPER_NERFS
        THEN IF is_relax
             THEN MulDiv(MAPPER_NERFS[creator], 8500, Scale)
             ELSE MAPPER_NERFS[creator]
        ELSE IF \E p \in 1..Len(NERFED_TITLE_PATTERNS) :
               \/ Contains(NERFED_TITLE_PATTERNS[p], title_lower)
               \/ Contains(NERFED_TITLE_PATTERNS[p], artist_lower)
        THEN MAPSET_NERF_MULTIPLIER
        ELSE IF set_id \in NERFED_MAPSET_IDS
        THEN MAPSET_NERF_MULTIPLIER
        ELSE Scale

\* a resolver that does not look at the relax bit
should_nerf_map_relax_blind(title, artist, creator, set_id, mods) ==
    LET title_lower == Lower(title)
        artist_lower == Lower(artist)
    IN  IF \E p \in 1..Len(NERFED_TITLE_PATTERNS) :
               \/ Contains(NERFED_TITLE_PATTERNS[p], title_lower)
               \/ Contains(NERFED_TITLE_PATTERNS[p], artist_lower)
        THEN MAPSET_NERF_MULTIPLIER
        ELSE IF set_id \in NERFED_MAPSET_IDS
        THEN MAPSET_NERF_MULTIPLIER
        ELSE IF creator \in DOMAIN MAPPER_NERFS
        THEN MAPPER_NERFS[creator]
        ELSE Scale

should_nerf_map(title, artist, creator, set_id, mods) ==
    LET is_relax == HasBit(mods, 128)
        title_lower == Lower(title)
        artist_lower == Lower(artist)
    IN  IF \E p \in 1..Len(NERFED_TITLE_PATTERNS) :
               \/ Contains(NERFED_TITLE_PATTERNS[p], title_lower)
               \/ Contains(NERFED_TITLE_PATTERNS[p], artist_lower)
        THEN MAPSET_NERF_MULTIPLIER
        ELSE IF set_id \in NERFED_MAPSET_IDS
        THEN MAPSET_NERF_MULTIPLIER
        ELSE IF creator \in DOMAIN MAPPER_NERFS
        THEN IF is_relax
             THEN MulDiv(MAPPER_NERFS[creator], 8500, Scale)
             ELSE MAPPER_NERFS[creator]
        ELSE Scale

(***************************************************************************)
(* app/usecases/performance.py: calculate_performances.                    *)
(* A call is a record a: osu_file_path (a string), scores (a sequence of   *)
(* ScoreParams), map_title, map_artist, map_creator, map_set_id,           *)
(* map_length, apply_pp_cap, player_id, and what the call meets outside    *)
(* the function: attrs, the engine's result for the score (pp, pp_aim,     *)
(* pp_speed, pp_flashlight), and cs, the parsed beatmap's circle size.     *)
(***************************************************************************)
PP_CAPS == [m \in {0, 4, 8} |-> IF m = 8 THEN 20000 ELSE 55000]

PLAYER_BUFFS == [p \in {} |-> Scale]

\* the condition of the ValueError
CP_both_given(score) ==
    /\ Truthy(score.acc)
    /\ \/ Truthy(score.n300)
       \/ Truthy(score.n100)
       \/ Truthy(score.n50)
       \/ Truthy(score.ngeki)
       \/ Truthy(score.nkatu)

CP_mods_toggling(mods) ==
    IF mods.k # "none" /\ HasBit(mods.v, NIGHTCORE)
    THEN Some(IF HasBit(mods.v, DOUBLETIME) THEN mods.v - DOUBLETIME ELSE mods.v + DOUBLETIME)
    ELSE mods

\* rosupp ignores NC and requires DT: the score object's mods after the call
CP_mods(mods) ==
    IF mods.k # "none" /\ HasBit(mods.v, NIGHTCORE)
    THEN Some(OrBit(mods.v, DOUBLETIME))
    ELSE mods

CP_adjusted_misses(nmiss, is_relax) ==
    LET MISS_PENALTY_MULTIPLIER == IF is_relax THEN 10500 ELSE 10000
    IN  IF Truthy(nmiss)
        THEN Some((OrZero(nmiss).v * MISS_PENALTY_MULTIPLIER) \div Scale)
        ELSE None

CP_accuracy_multiplier(acc) ==
    LET score_acc == IF Truthy(acc) THEN acc ELSE Fin(100 * Scale)
    IN  IF FGe(score_acc, 100 * Scale) THEN 13300
        ELSE IF FGe(score_acc, 99 * Scale) THEN 13100
        ELSE IF FGe(score_acc, 98 * Scale) THEN 12700
        ELSE IF FGe(score_acc, 97 * Scale) THEN 12400
        ELSE IF FGe(score_acc, 95 * Scale) THEN 11900
        ELSE 11600

\* the length buff/nerf
\* a length stage whose bands start one second late
CP_length_late(pp, map_length) ==
    IF map_length.k = "none" THEN pp
    ELSE IF map_length.v < 60 THEN FMul(pp, 9000)
    ELSE IF map_length.v > 180
    THEN IF map_length.v > 300 THEN FMul(pp, 11500)
         ELSE IF map_length.v > 240 THEN FMul(pp, 11000)
         ELSE FMul(pp, 10500)
    ELSE pp

CP_length(pp, map_length) ==
    IF map_length.k = "none" THEN pp
    ELSE IF map_length.v < 60 THEN FMul(pp, 9000)
    ELSE IF map_length.v >= 180
    THEN IF map_length.v >= 300 THEN FMul(pp, 11500)
         ELSE IF map_length.v >= 240 THEN FMul(pp, 11000)
         ELSE FMul(pp, 10500)
    ELSE pp

\* a cap stage that does not look at apply_pp_cap
CP_cap_unconditional(pp, mode, apply_pp_cap) ==
    IF mode \in DOMAIN PP_CAPS /\ FGt(pp, Fin(PP_CAPS[mode] * Scale))
    THEN Fin(PP_CAPS[mode] * Scale)
    ELSE pp

\* the PP caps
CP_cap(pp, mode, apply_pp_cap) ==
    IF apply_pp_cap /\ mode \in DOMAIN PP_CAPS /\ FGt(pp, Fin(PP_CAPS[mode] * Scale))
    THEN Fin(PP_CAPS[mode] * Scale)
    ELSE pp

\* the player-specific buffs
CP_player_buff(pp, player_id) ==
    IF Truthy(player_id) /\ player_id.v \in DOMAIN PLAYER_BUFFS
    THEN FMul(pp, PLAYER_BUFFS[player_id.v])
    ELSE pp

CP_sanitize(pp) == IF isnan(pp) \/ isinf(pp) THEN Fin(0) ELSE Round3(pp)

\* one turn of the loop over scores, after the ValueError check
CP_body(a, score) ==
    LET mods == CP_mods(score.mods)
        is_relax == HasBit(OrZero(mods).v, 128)
        adjusted_misses == CP_adjusted_misses(score.nmiss, is_relax)
        result == a.attrs
        AIM_MULTIPLIER == IF is_relax THEN 13500 ELSE 11000
        SPEED_MULTIPLIER == IF is_relax THEN 11000 ELSE 12000
        FLASHLIGHT_MULTIPLIER == IF is_relax THEN 7500 ELSE 7000
        ACCURACY_MULTIPLIER == CP_accuracy_multiplier(score.acc)
        pp_aim == FMul(OrZero(result.pp_aim), AIM_MULTIPLIER)
        pp_speed == FMul(OrZero(result.pp_speed), SPEED_MULTIPLIER)
        pp_flashlight == FMul(OrZero(result.pp_flashlight), FLASHLIGHT_MULTIPLIER)
        base_total == OrZero(result.pp)
        base_aim == OrZero(result.pp_aim)
        base_speed == OrZero(result.pp_speed)
        base_flashlight == OrZero(result.pp_flashlight)
        difference == FSub(FSub(FSub(base_total, base_aim), base_speed), base_flashlight)
        pp_acc_estimated == PyMax(Fin(0), difference)
        pp_acc == FMul(pp_acc_estimated, ACCURACY_MULTIPLIER)
        pp_recalculated == FAdd(FAdd(FAdd(pp_aim, pp_speed), pp_acc), pp_flashlight)
        pp_global == FMul(pp_recalculated, 12500)
        pp_nerfed ==
            IF /\ a.map_title # <<>>
               /\ a.map_artist # <<>>
               /\ a.map_creator # ""
               /\ a.map_set_id.k # "none"
            THEN FMul(pp_global, should_nerf_map(a.map_title, a.map_artist, a.map_creator,
                                                 a.map_set_id.v, OrZero(mods).v))
            ELSE pp_global
        pp_cs == IF is_relax /\ FGt(a.cs, Fin(6 * Scale)) THEN FMul(pp_nerfed, 7500) ELSE pp_nerfed
        pp_length == CP_length(pp_cs, a.map_length)
        pp_capped == CP_cap(pp_length, score.mode, a.apply_pp_cap)
        pp_buffed == CP_player_buff(pp_capped, a.player_id)
        pp == CP_sanitize(pp_buffed)
    IN  [pp |-> pp, pp_aim |-> pp_aim, pp_speed |-> pp_speed, pp_flashlight |-> pp_flashlight,
         engine_mods |-> OrZero(mods).v, engine_misses |-> adjusted_misses,
         acc_multiplier |-> ACCURACY_MULTIPLIER,
         pre_policy |-> pp_global, pre_nerf |-> pp_global, post_nerf |-> pp_nerfed,
         pre_length |-> pp_cs, pre_cap |-> pp_length, post_cap |-> pp_capped,
         intermediates |-> {base_total, base_aim, base_speed, base_flashlight, difference,
                            pp_acc_estimated, pp_acc, pp_aim, pp_speed, pp_flashlight,
                            pp_recalculated, pp_global, pp_nerfed, pp_cs, pp_length,
                            pp_capped, pp_buffed}]

RECURSIVE CP_loop(_, _, _, _)
\* the loop over scores from index i on: done holds the scores already visited (as
\* the call leaves them), results the results so far
CP_loop(a, i, done, results) ==
    IF i > Len(a.scores)
    THEN [status |-> "returned", results |-> results, scores |-> done]
    ELSE LET score == a.scores[i]
         IN  IF CP_both_given(score)
             THEN [status |-> "ValueError", results |-> <<>>,
                   scores |-> done \o SubSeq(a.scores, i, Len(a.scores))]
             ELSE CP_loop(a, i + 1,
                          Append(done, [score EXCEPT !.mods = CP_mods(score.mods)]),
                          Append(results, CP_body(a, score)))

\* the call: its outcome (returned or ValueError), the results returned and the
\* caller's ScoreParams objects as the call leaves them
calculate_performances(a) ==
    IF a.osu_file_path = ""
    THEN [status |-> "returned", results |-> <<>>, scores |-> a.scores]
    ELSE CP_loop(a, 1, <<>>, <<>>)

(***************************************************************************)
(* tools/recalc.py: the pipeline inlined in recalculate_score.  A score is *)
(* a row of the SELECT of recalculate_mode_scores: id, userid, mode, mods, *)
(* pp, acc, nmiss, map_id, title, artist, creator, set_id, total_length    *)
(* (every key present).                                                    *)
(***************************************************************************)
RS_adjusted_misses(nmiss, is_relax) ==
    LET MISS_PENALTY_MULTIPLIER == IF is_relax THEN 10500 ELSE 10000
    IN  IF nmiss # 0 THEN (nmiss * MISS_PENALTY_MULTIPLIER) \div Scale ELSE 0

RS_accuracy_multiplier(score_acc) ==
    IF FGe(score_acc, 100 * Scale) THEN 13300
    ELSE IF FGe(score_acc, 99 * Scale) THEN 13100
    ELSE IF FGe(score_acc, 98 * Scale) THEN 12700
    ELSE IF FGe(score_acc, 97 * Scale) THEN 12400
    ELSE IF FGe(score_acc, 95 * Scale) THEN 11900
    ELSE 11600

RS_length(new_pp, map_length_seconds) ==
    IF map_length_seconds < 60 THEN FMul(new_pp, 9000)
    ELSE IF map_length_seconds >= 180
    THEN IF map_length_seconds >= 300 THEN FMul(new_pp, 11500)
         ELSE IF map_length_seconds >= 240 THEN FMul(new_pp, 11000)
         ELSE FMul(new_pp, 10500)
    ELSE new_pp

RS_cap(new_pp, mode) ==
    IF mode \in DOMAIN PP_CAPS /\ FGt(new_pp, Fin(PP_CAPS[mode] * Scale))
    THEN Fin(PP_CAPS[mode] * Scale)
    ELSE new_pp

RS_player_buff(new_pp, userid) ==
    IF userid \in DOMAIN PLAYER_BUFFS THEN FMul(new_pp, PLAYER_BUFFS[userid]) ELSE new_pp

\* a last stage that only looks for NaN
RS_sanitize_nan_only(new_pp) == IF isnan(new_pp) THEN Fin(0) ELSE new_pp

RS_sanitize(new_pp) == IF isnan(new_pp) \/ isinf(new_pp) THEN Fin(0) ELSE new_pp

\* from the relax check to the value handed to the UPDATE; attrs is the engine's
\* result for the score, cs the circle size of the (cached) beatmap
RS_pipeline(score, attrs, cs) ==
    LET is_relax == HasBit(score.mods, 128)
        adjusted_misses == RS_adjusted_misses(score.nmiss, is_relax)
        AIM_MULTIPLIER == IF is_relax THEN 13500 ELSE 11000
        SPEED_MULTIPLIER == IF is_relax THEN 11000 ELSE 12000
        FLASHLIGHT_MULTIPLIER == IF is_relax THEN 7500 ELSE 7000
        ACCURACY_MULTIPLIER == RS_accuracy_multiplier(score.acc)
        pp_aim == FMul(OrZero(attrs.pp_aim), AIM_MULTIPLIER)
        pp_speed == FMul(OrZero(attrs.pp_speed), SPEED_MULTIPLIER)
        pp_flashlight == FMul(OrZero(attrs.pp_flashlight), FLASHLIGHT_MULTIPLIER)
        base_total == OrZero(attrs.pp)
        base_aim == OrZero(attrs.pp_aim)
        base_speed == OrZero(attrs.pp_speed)
        base_flashlight == OrZero(attrs.pp_flashlight)
        difference == FSub(FSub(FSub(base_total, base_aim), base_speed), base_flashlight)
        pp_acc_estimated == PyMax(Fin(0), difference)
        pp_acc == FMul(pp_acc_estimated, ACCURACY_MULTIPLIER)
        pp_recalculated == FAdd(FAdd(FAdd(pp_aim, pp_speed), pp_acc), pp_flashlight)
        pp_global == FMul(pp_recalculated, 12500)
        pp_nerfed == FMul(pp_global, should_nerf_map(score.title, score.artist, score.creator,
                                                     score.set_id, score.mods))
        pp_cs == IF is_relax /\ FGt(cs, Fin(6 * Scale)) THEN FMul(pp_nerfed, 7500) ELSE pp_nerfed
        pp_length == RS_length(pp_cs, score.total_length)
        pp_capped == RS_cap(pp_length, score.mode)
        pp_buffed == RS_player_buff(pp_capped, score.userid)
        new_pp == RS_sanitize(pp_buffed)
    IN  [new_pp |-> new_pp,
         engine_mods |-> score.mods, engine_misses |-> Some(adjusted_misses),
         acc_multiplier |-> ACCURACY_MULTIPLIER,
         pre_policy |-> pp_global, pre_nerf |-> pp_global, post_nerf |-> pp_nerfed,
         pre_length |-> pp_cs, pre_cap |-> pp_length, post_cap |-> pp_capped,
         intermediates |-> {base_total, base_aim, base_speed, base_flashlight, difference,
                            pp_acc_estimated, pp_acc, pp_aim, pp_speed, pp_flashlight,
                            pp_recalculated, pp_global, pp_nerfed, pp_cs, pp_length,
                            pp_capped, pp_buffed}]

(***************************************************************************)
(* tools/recalc.py: the batch run.  The database the run works on: a small *)
(* corpus of scores, maps and users.                                       *)
(***************************************************************************)
ChunkSize == 2
NumScores == 6
NumUsers == 3
NumModes == 2
NumMaps == 3

ScoreIds == 1..NumScores
UserIds == 1..NumUsers
MapIds == 1..NumMaps

\* --mode: the first NumModes of the default list
ModeChoices == <<0, 1, 2, 3, 4, 5, 6, 8>>
args_mode == SubSeq(ModeChoices, 1, NumModes)
ModeIdx == 1..NumModes

UNRESTRICTED == 1

\* table maps (cs is read from the parsed .osu file)
DB_maps(m) ==
    CASE m = 1 -> [title |-> <<"F","D">>, artist |-> <<"x","i">>, creator |-> "Nakagawa",
                   set_id |-> 39804, total_length |-> 258, status |-> 2, cs |-> Fin(4 * Scale)]
      [] m = 2 -> [title |-> <<"S","p","e","d"," ","U","p">>, artist |-> <<"x","i">>,
                   creator |-> "hool", set_id |-> 77, total_length |-> 45, status |-> 3,
                   cs |-> Fin(7 * Scale)]
      [] OTHER -> [title |-> <<"m","a","p">>, artist |-> <<"v","a">>, creator |-> "kselon",
                   set_id |-> 500 + m, total_length |-> 200, status |-> 5,
                   cs |-> Fin(4 * Scale)]

\* table scores without the pp column (every score has status 2)
DB_scores(s) ==
    CASE s = 1 -> [userid |-> 1, mode |-> args_mode[1], mods |-> 0, acc |-> Fin(995000),
                   nmiss |-> 0, map_id |-> 1]
      [] s = 2 -> [userid |-> 1, mode |-> args_mode[1], mods |-> 128, acc |-> Fin(960000),
                   nmiss |-> 25, map_id |-> 2]
      [] s = 3 -> [userid |-> 2, mode |-> args_mode[1], mods |-> 0, acc |-> Fin(100 * Scale),
                   nmiss |-> 3, map_id |-> 1]
      [] s = 4 -> [userid |-> 1, mode |-> args_mode[NumModes], mods |-> 64,
                   acc |-> Fin(900000), nmiss |-> 1, map_id |-> 3]
      [] s = 5 -> [userid |-> 2, mode |-> args_mode[NumModes], mods |-> 0,
                   acc |-> Fin(970000), nmiss |-> 0, map_id |-> 3]
      [] s = 6 -> [userid |-> 2, mode |-> args_mode[NumModes], mods |-> 128,
                   acc |-> Fin(990000), nmiss |-> 20, map_id |-> 1]
      [] OTHER -> [userid |-> 2, mode |-> args_mode[1], mods |-> 128, acc |-> Fin(980000),
                   nmiss |-> 0, map_id |-> 2]

\* table users
DB_users(u) ==
    [country |-> IF u % 2 = 1 THEN "us" ELSE "jp",
     priv |-> IF u = 2 THEN 0 ELSE UNRESTRICTED]

Countries == {DB_users(u).country : u \in UserIds}

\* scores.pp before the first run
InitialPP(s) == Fin((NumScores + 1 - s) * 100 * Scale + 5)

\* what Performance(...).calculate(beatmap) returns for score s
EngineAttrs(s) ==
    CASE s = 1 -> [pp |-> Fin(3000001), pp_aim |-> Fin(1200000), pp_speed |-> Fin(1000000),
                   pp_flashlight |-> None]
      [] s = 2 -> [pp |-> Fin(605000000), pp_aim |-> Fin(600000000), pp_speed |-> Fin(15000),
                   pp_flashlight |-> Fin(0)]
      [] s = 3 -> [pp |-> NaN, pp_aim |-> Fin(100001), pp_speed |-> Fin(25000),
                   pp_flashlight |-> Fin(12345)]
      [] s = 4 -> [pp |-> Fin(2000000), pp_aim |-> None, pp_speed |-> None,
                   pp_flashlight |-> None]
      [] OTHER -> [pp |-> Fin(900000), pp_aim |-> PosInf, pp_speed |-> NegInf,
                   pp_flashlight |-> Fin(1)]

VARIABLES
    args,           \* no_scores, no_stats
    faults,         \* what the run meets: kind ("none", "unavailable", "parse", "engine",
                    \* "update") and the score (for parse: the map) it strikes
    run,            \* 1 for the first invocation of main, 2 for the second
    snap,           \* scores.pp and stats as the first invocation left them
    main,           \* main's position: pc, mode (index in args.mode), phase, scores and
                    \* user_ids (the lists loaded), chunk (index), cursor, exc
    exit_code,
    scoreTask,      \* per score: st and the local new_pp of its recalculate_score
    userTask,       \* per mode and user: st and the locals pp, acc, total_scores
    scores_pp,      \* scores.pp
    stats,          \* table stats, per mode and user
    redis,          \* the leaderboard sorted sets, per key (mode, country or "") and member
    beatmaps,       \* ctx.beatmaps: per map id the Beatmap object cached (named by the
                    \* score whose task built it), 0 when the id is not a key
    score_changes,  \* ctx.score_changes
    user_changes,   \* ctx.user_changes
    cpFn, cpIn, cpOut, \* a single call of a rating function: which, its input, its outcome
    now,            \* datetime.now() and the database's NOW()
    api_keys,       \* table api_keys: the rows in the order of their ids
    authReq,        \* per API request: its endpoint, Authorization header, position and
                    \* locals, and the response once it is over
    lastUsed,       \* per API request: the update_last_used task get_api_key_user created
    oauth_token,    \* the module's _oauth_token
    tokenCall,      \* per caller of get_oauth_token: its position and what it got back
    issued          \* how many tokens the token endpoint has granted

runVars == <<args, faults, run, snap, main, exit_code, scoreTask, userTask, scores_pp, stats,
             redis, beatmaps, score_changes, user_changes>>
pureVars == <<cpFn, cpIn, cpOut>>
authVars == <<api_keys, authReq, lastUsed>>
tokenVars == <<oauth_token, tokenCall, issued>>
\* what no step of a run changes
fixed == <<args, faults, cpFn, cpIn, cpOut, now, authVars, tokenVars>>
vars == <<runVars, pureVars, now, authVars, tokenVars>>

\* divide_chunks(values, n) as the sequence of the chunks it yields
divide_chunks(values, n) ==
    [c \in 1..((Len(values) + n - 1) \div n) |->
        SubSeq(values, (c - 1) * n + 1,
               IF c * n < Len(values) THEN c * n ELSE Len(values))]

RECURSIVE OrderByPPDesc(_, _)
\* the ids of S in the order of ORDER BY pp DESC (equal pp: by id)
OrderByPPDesc(S, pp) ==
    IF S = {} THEN <<>>
    ELSE LET first == CHOOSE s \in S :
                          \A t \in S : pp[s].v > pp[t].v \/ (pp[s].v = pp[t].v /\ s <= t)
         IN  <<first>> \o OrderByPPDesc(S \ {first}, pp)

\* the SELECT of recalculate_mode_scores: the rows of a mode, joined with maps
SelectScores(mode, pp) ==
    LET ids == OrderByPPDesc({s \in ScoreIds : DB_scores(s).mode = mode}, pp)
    IN  [i \in 1..Len(ids) |->
            LET s == ids[i]
                m == DB_maps(DB_scores(s).map_id)
            IN  [id |-> s, userid |-> DB_scores(s).userid, mode |-> DB_scores(s).mode,
                 mods |-> DB_scores(s).mods, pp |-> pp[s], acc |-> DB_scores(s).acc,
                 nmiss |-> DB_scores(s).nmiss, map_id |-> DB_scores(s).map_id,
                 title |-> m.title, artist |-> m.artist, creator |-> m.creator,
                 set_id |-> m.set_id, total_length |-> m.total_length]]

\* the SELECT of recalculate_user: pp and acc of the user's scores of the mode on
\* ranked or approved maps, best first
SelectBestScores(user_id, mode, pp) ==
    LET ids == OrderByPPDesc({s \in ScoreIds : /\ DB_scores(s).userid = user_id
                                               /\ DB_scores(s).mode = mode
                                               /\ DB_maps(DB_scores(s).map_id).status \in {2, 3}},
                             pp)
    IN  [i \in 1..Len(ids) |-> [pp |-> pp[ids[i]], acc |-> DB_scores(ids[i]).acc]]

\* SELECT id FROM users
SelectUserIds == [i \in 1..NumUsers |-> i]

(***************************************************************************)
(* The aggregate of recalculate_user.  Powers of 0.95 and 0.9994 are kept  *)
(* in units of 1/10^8.                                                     *)
(***************************************************************************)
RECURSIVE Pow8(_, _)
\* base^n, base in units of 1/Scale, the result in units of 1/10^8
Pow8(base, n) == IF n = 0 THEN 10^8 ELSE MulDiv(Pow8(base, n - 1), base, Scale)

\* x * f for f in units of 1/10^8, x up to 2^31 / 10^4
MulFrac8(x, f) ==
    LET xh == x \div Scale
        xl == x % Scale
        fh == f \div Scale
        fl == f % Scale
    IN  xh * fh + (xh * fl + xl * fh) \div Scale + (xl * fl) \div 10^8

RECURSIVE LongDiv(_, _, _, _)
\* floor(q + r * 10^k / den), digit by digit (0 <= r < den)
LongDiv(q, r, den, k) ==
    IF k = 0 THEN q
    ELSE LongDiv(q * 10 + (r * 10) \div den, (r * 10) % den, den, k - 1)

RECURSIVE WeightedSum_unweighted(_, _, _)
WeightedSum_unweighted(best_scores, col, i) ==
    IF i > Len(best_scores) THEN 0
    ELSE best_scores[i][col].v + WeightedSum_unweighted(best_scores, col, i + 1)

RECURSIVE WeightedSum(_, _, _)
\* sum(row[col] * 0.95**i for i, row in enumerate(best_scores)), from index i on
WeightedSum(best_scores, col, i) ==
    IF i > Len(best_scores) THEN 0
    ELSE MulFrac8(best_scores[i][col].v, Pow8(9500, i - 1))
         + WeightedSum(best_scores, col, i + 1)

\* round(x) of a finite float, ties to even: an int
RoundInt(x) ==
    LET q == x \div Scale
        r == x % Scale
    IN  IF 2 * r < Scale \/ (2 * r = Scale /\ q % 2 = 0) THEN q ELSE q + 1

\* the new total weighted accuracy (a float)
AggregateAcc(best_scores) ==
    LET total_scores == Len(best_scores)
        weighted_acc == WeightedSum(best_scores, "acc", 1)
        den == 10^8 - Pow8(9500, total_scores)
    IN  Fin(LongDiv((5 * weighted_acc) \div den, (5 * weighted_acc) % den, den, 6))

\* the new total weighted pp (an int)
AggregatePP(best_scores) ==
    LET total_scores == Len(best_scores)
        weighted_pp == WeightedSum(best_scores, "pp", 1)
        bonus_pp == MulFrac8(4166667, 10^8 - Pow8(9994, total_scores))
    IN  RoundInt(weighted_pp + bonus_pp)

\* a REPLACE: the row is written anew, the other columns at their defaults
StatsUpsert_replacing(row, pp, acc, plays) ==
    [exists |-> TRUE, pp |-> pp, acc |-> acc, plays |-> plays, other |-> 0]

\* an upsert that adds the play count to the stored one
StatsUpsert_adding(row, pp, acc, plays) ==
    IF row.exists
    THEN [row EXCEPT !.pp = pp, !.acc = acc, !.plays = @ + plays]
    ELSE [exists |-> TRUE, pp |-> pp, acc |-> acc, plays |-> plays, other |-> 0]

\* INSERT ... ON DUPLICATE KEY UPDATE pp, acc, plays; other stands for the columns
\* tscore, rscore, playtime, max_combo, total_hits and the grade counts
StatsUpsert(row, pp, acc, plays) ==
    IF row.exists
    THEN [row EXCEPT !.pp = pp, !.acc = acc, !.plays = plays]
    ELSE [exists |-> TRUE, pp |-> pp, acc |-> acc, plays |-> plays, other |-> 0]

\* UPDATE scores SET pp = :new_pp WHERE id = :id
ScoresUpdate(table, id, new_pp) == [table EXCEPT ![id] = new_pp]

\* a write that adds the score to the member's stored one
zadd_incrementing(store, key, member, score) ==
    [store EXCEPT ![key][member] = Some(score + IF @.k = "none" THEN 0 ELSE @.v)]

\* redis.zadd(key, {member: score})
zadd(store, key, member, score) == [store EXCEPT ![key][member] = Some(score)]

RedisKeys == {<<args_mode[i], c>> : i \in ModeIdx, c \in Countries \cup {""}}

(***************************************************************************)
(* What the run meets outside the program.                                 *)
(***************************************************************************)
FaultPlans ==
    {[kind |-> "none", target |-> 0]}
    \cup {[kind |-> k, target |-> s] : k \in {"unavailable", "engine", "update", "report"},
                                          s \in ScoreIds}
    \cup {[kind |-> "parse", target |-> m] : m \in MapIds}

\* ensure_osu_file_is_available(map_id, expected_md5) for the score: a boolean
ensure_osu_file_is_available(s) == ~(faults.kind = "unavailable" /\ faults.target = s)

\* Beatmap(path=...) raises on the file of map m
BeatmapRaises(m) == faults.kind = "parse" /\ faults.target = m

\* calculator.calculate(beatmap) raises for score s
CalculateRaises(s) == faults.kind = "engine" /\ faults.target = s

\* the UPDATE of score s raises
UpdateRaises(s) == faults.kind = "update" /\ faults.target = s

\* what follows the UPDATE of score s inside the try block raises: the change
\* record (round(score["pp"], 3) on a pp that is NULL) or the print
ReportRaises(s) == faults.kind = "report" /\ faults.target = s

\* Context(db, redis, ...): beatmaps is an empty dict
NoBeatmaps == [m \in MapIds |-> 0]

NoRow == [exists |-> FALSE, pp |-> None, acc |-> None, plays |-> 0, other |-> 0]
NoScoreTask == [st |-> "none", new_pp |-> None]
NoUserTask == [st |-> "none", pp |-> 0, acc |-> None, total_scores |-> 0]
MainStart ==
    [pc |-> "mode", mode |-> 1, phase |-> "idle", scores |-> <<>>, user_ids |-> <<>>,
     chunk |-> 1, cursor |-> 1, exc |-> "none"]

InitialStats ==
    [i \in ModeIdx |-> [u \in UserIds |->
        IF i = 1 /\ u = 1
        THEN [exists |-> TRUE, pp |-> Some(777), acc |-> Fin(950000), plays |-> 9, other |-> 123]
        ELSE IF i = NumModes /\ u = NumUsers
        THEN [exists |-> TRUE, pp |-> Some(55), acc |-> Fin(910000), plays |-> 4, other |-> 7]
        ELSE NoRow]]

InitialRedis ==
    [key \in RedisKeys |-> [u \in UserIds |->
        IF key = <<args_mode[1], "">> /\ u = 1 THEN Some(777)
        ELSE IF key = <<args_mode[NumModes], "">> /\ u = NumUsers THEN Some(55)
        ELSE None]]

PureIdle ==
    /\ cpFn = "idle"
    /\ cpIn = None
    /\ cpOut = None

(***************************************************************************)
(* The API's keys and the osu! API token: the state before any request.    *)
(***************************************************************************)
\* the clock runs from 0 to MaxTime
MaxTime == 2

\* an Authorization header or an API key is the sequence of the pieces the code
\* looks at; startswith(prefix) looks at the first piece
startswith(str, prefix) == Len(str) > 0 /\ Head(str) = prefix

\* hash_api_key(api_key): a digest, equal for equal keys only
hash_api_key(api_key) == <<"sha256">> \o api_key

\* the keys of the rows present before any request
PlainKey(name) == <<"bancho_v2_", name>>

\* the rows of users: users_repo.fetch_one(id) gives the row or None
UsersPresent == {1, 2}

users_fetch_one(id) == IF id \in UsersPresent THEN Some(id) ELSE None

\* api_keys before any request: key 1 of user 1 without expiry, key 2 of user 1
\* expiring at 1, key 3 of a user that has no row, key 4 of user 2
ApiKeyRow(id, user_id, name, expires_at) ==
    [id |-> id, user_id |-> user_id, api_key_hash |-> hash_api_key(PlainKey(name)),
     description |-> "old", revoked |-> FALSE, expires_at |-> expires_at,
     last_used_at |-> None]

InitialApiKeys ==
    << ApiKeyRow(1, 1, "k1", None), ApiKeyRow(2, 1, "k2", Some(1)),
       ApiKeyRow(3, 3, "k3", None), ApiKeyRow(4, 2, "k4", None) >>

\* the names generate_api_key gives the keys created, by the id of their row
NewKeyNames == <<"k5", "k6">>

ReqIds == {1, 2}

\* a request that has not arrived
NoKeyData == ApiKeyRow(0, 0, "", None)

\* a request that has not arrived: auth is what get_api_key_user came to ("none"
\* when it returned None, "user", or "401" with detail), response the status sent
\* (0 before); began and was_revoked record the time the request arrived at and
\* whether its key was revoked then
NoRequest ==
    [pc |-> "new", endpoint |-> "none", key_id |-> 0, expires_in_days |-> 0,
     description |-> "", authorization |-> <<>>, began |-> 0, was_revoked |-> FALSE,
     key_data |-> NoKeyData, auth |-> "pending", detail |-> "", user |-> None,
     expires_at |-> None, response |-> 0]

CallerIds == {1, 2, 3}

\* _oauth_token = None
NoToken == [cached |-> FALSE, access_token |-> 0, expires_at |-> 0]

\* a caller that has not called: outcome is "cached", "fetched", "ValueError" or
\* "raised" once the call is over and returned the token it was given; checked and
\* saw record the time of its look at the cache and what the cache held then,
\* expires_in what the token endpoint answered it
NoTokenCall ==
    [pc |-> "new", configured |-> TRUE, checked |-> 0, saw |-> NoToken, posted |-> FALSE,
     expires_in |-> None, outcome |-> "", returned |-> None]

ServicesIdle ==
    /\ now = 0
    /\ api_keys = InitialApiKeys
    /\ authReq = [r \in ReqIds |-> NoRequest]
    /\ lastUsed = [r \in ReqIds |-> "none"]
    /\ oauth_token = NoToken
    /\ tokenCall = [c \in CallerIds |-> NoTokenCall]
    /\ issued = 0

Init ==
    /\ ServicesIdle
    /\ args \in [no_scores : BOOLEAN, no_stats : BOOLEAN]
    /\ faults \in FaultPlans
    /\ run = 1
    /\ main = MainStart
    /\ exit_code = None
    /\ scoreTask = [s \in ScoreIds |-> NoScoreTask]
    /\ userTask = [i \in ModeIdx |-> [u \in UserIds |-> NoUserTask]]
    /\ scores_pp = [s \in ScoreIds |-> InitialPP(s)]
    /\ stats = InitialStats
    /\ redis = InitialRedis
    /\ snap = [scores_pp |-> scores_pp, stats |-> stats]
    /\ beatmaps = NoBeatmaps
    /\ score_changes = <<>>
    /\ user_changes = <<>>
    /\ PureIdle

(***************************************************************************)
(* main, recalculate_mode_scores, process_score_chunk                      *)
(***************************************************************************)
\* the chunk process_*_chunk is working on
ScoreChunk == divide_chunks(main.scores, ChunkSize)[main.chunk]
UserChunk == divide_chunks(main.user_ids, ChunkSize)[main.chunk]

\* a gather that hands control back without waiting for its tasks
GatherReturns_at_once(states) == TRUE

\* asyncio.gather(*tasks) has returned: every task of the chunk has finished
\* (a skipped score has no task) and none has raised
GatherReturns(states) == \A st \in states : st \in {"skipped", "done", "failed"}

\* a recalculate_score without its except clause: the exception reaches gather
RS_except_absent(m) == [m EXCEPT !.exc = "score_task"]

\* the except clause of recalculate_score: the exception is printed and goes no further
RS_except(m) == m

\* an exception leaves recalculate_user: gather hands it to process_user_chunk
RU_raise(m) == [m EXCEPT !.exc = "user_task"]

\* after the scores of the mode: the users of the mode
ToUsers(m) == [m EXCEPT !.pc = "users", !.phase = "users", !.chunk = 1, !.cursor = 1]

\* a loop that leaves out every other mode
ToNextMode_skipping(m) ==
    [m EXCEPT !.pc = "mode", !.mode = @ + 2, !.phase = "idle", !.chunk = 1,
              !.cursor = 1, !.scores = <<>>, !.user_ids = <<>>]

\* after the users of the mode: the next mode
ToNextMode(m) == [m EXCEPT !.pc = "mode", !.mode = @ + 1, !.phase = "idle", !.chunk = 1,
                           !.cursor = 1, !.scores = <<>>, !.user_ids = <<>>]

\* the SELECT of recalculate_mode_scores returns
LoadScores ==
    /\ main.pc = "mode"
    /\ main.mode <= NumModes
    /\ ~args.no_scores
    /\ LET rows == SelectScores(args_mode[main.mode], scores_pp)
       IN  main' = IF rows = <<>>
                   THEN ToUsers([main EXCEPT !.scores = rows])
                   ELSE [main EXCEPT !.pc = "avail", !.phase = "scores", !.scores = rows,
                                     !.chunk = 1, !.cursor = 1]
    /\ UNCHANGED <<fixed, run, snap, exit_code, scoreTask, userTask, scores_pp, stats,
                   redis, beatmaps, score_changes, user_changes>>

\* the SELECT of recalculate_mode_scores or of recalculate_mode_users raises
LoadRaises ==
    /\ \/ main.pc = "mode" /\ main.mode <= NumModes /\ ~args.no_scores
       \/ main.pc = "users" /\ ~args.no_stats
    /\ main' = [main EXCEPT !.pc = "aborted", !.exc = "load"]
    /\ exit_code' = Some(1)
    /\ UNCHANGED <<fixed, run, snap, scoreTask, userTask, scores_pp, stats, redis,
                   beatmaps, score_changes, user_changes>>

\* --no-scores
SkipScores ==
    /\ main.pc = "mode"
    /\ main.mode <= NumModes
    /\ args.no_scores
    /\ main' = ToUsers(main)
    /\ UNCHANGED <<fixed, run, snap, exit_code, scoreTask, userTask, scores_pp, stats,
                   redis, beatmaps, score_changes, user_changes>>

\* a loop that creates a task whatever the check says
PSC_task_always(osu_file_available) == "created"

\* `if osu_file_available: tasks.append(recalculate_score(...))`: what becomes of
\* the score in this chunk
PSC_task(osu_file_available) == IF osu_file_available THEN "created" ELSE "skipped"

\* one turn of the loop of process_score_chunk; after the last one, gather
CheckAvailable ==
    /\ main.pc = "avail"
    /\ LET s == ScoreChunk[main.cursor].id
           last == main.cursor = Len(ScoreChunk)
           checked == [scoreTask EXCEPT ![s].st =
                          PSC_task(ensure_osu_file_is_available(s))]
       IN  /\ scoreTask' = IF last
                           THEN [t \in ScoreIds |->
                                    IF checked[t].st = "created"
                                    THEN [checked[t] EXCEPT !.st = "scheduled"]
                                    ELSE checked[t]]
                           ELSE checked
           /\ main' = IF last
                      THEN [main EXCEPT !.pc = "score_gather"]
                      ELSE [main EXCEPT !.cursor = @ + 1]
    /\ UNCHANGED <<fixed, run, snap, exit_code, userTask, scores_pp, stats, redis,
                   beatmaps, score_changes, user_changes>>

\* the row of score s in the list loaded
ScoreRow(s) == CHOOSE r \in {main.scores[i] : i \in 1..Len(main.scores)} : r.id = s

\* a task that parses the file whatever the cache holds
ScoreParses_always(s) == TRUE

\* the beatmap of score s is not in ctx.beatmaps yet
ScoreParses(s) == beatmaps[DB_scores(s).map_id] = 0

\* recalculate_score raises before its UPDATE
ScoreRaises(s) ==
    (ScoreParses(s) /\ BeatmapRaises(DB_scores(s).map_id)) \/ CalculateRaises(s)

\* recalculate_score from its start to the await of the UPDATE
ScoreStart(s) ==
    /\ main.pc = "score_gather"
    /\ scoreTask[s].st = "scheduled"
    /\ beatmaps' = IF ScoreParses(s) /\ ~BeatmapRaises(DB_scores(s).map_id)
                   THEN [beatmaps EXCEPT ![DB_scores(s).map_id] = s]
                   ELSE beatmaps
    /\ scoreTask' = [scoreTask EXCEPT ![s] =
           IF ScoreRaises(s)
           THEN [st |-> "failed", new_pp |-> None]
           ELSE [st |-> "updating",
                 new_pp |-> RS_pipeline(ScoreRow(s), EngineAttrs(s),
                                        DB_maps(DB_scores(s).map_id).cs).new_pp]]
    /\ main' = IF ScoreRaises(s) THEN RS_except(main) ELSE main
    /\ UNCHANGED <<fixed, run, snap, exit_code, userTask, scores_pp, stats, redis,
                   score_changes, user_changes>>

\* the UPDATE returns (or raises), and the rest of recalculate_score
ScoreUpdate(s) ==
    /\ scoreTask[s].st = "updating"
    /\ IF UpdateRaises(s)
       THEN /\ scoreTask' = [scoreTask EXCEPT ![s].st = "failed"]
            /\ main' = RS_except(main)
            /\ UNCHANGED <<scores_pp, score_changes>>
       ELSE /\ scores_pp' = ScoresUpdate(scores_pp, s, scoreTask[s].new_pp)
            /\ IF ReportRaises(s)
               THEN /\ scoreTask' = [scoreTask EXCEPT ![s].st = "failed"]
                    /\ main' = RS_except(main)
                    /\ UNCHANGED score_changes
               ELSE /\ score_changes' = Append(score_changes,
                           [score_id |-> s, old_pp |-> Round3(ScoreRow(s).pp),
                            new_pp |-> Round3(scoreTask[s].new_pp)])
                    /\ scoreTask' = [scoreTask EXCEPT ![s].st = "done"]
                    /\ main' = main
    /\ UNCHANGED <<fixed, run, snap, exit_code, userTask, stats, redis, beatmaps,
                   user_changes>>

\* gather returns to process_score_chunk: the next chunk, or the users
ScoreJoin ==
    /\ main.pc = "score_gather"
    /\ main.exc = "none"
    /\ GatherReturns({scoreTask[ScoreChunk[i].id].st : i \in 1..Len(ScoreChunk)})
    /\ main' = IF main.chunk * ChunkSize < Len(main.scores)
               THEN [main EXCEPT !.pc = "avail", !.chunk = @ + 1, !.cursor = 1]
               ELSE ToUsers(main)
    /\ UNCHANGED <<fixed, run, snap, exit_code, scoreTask, userTask, scores_pp, stats,
                   redis, beatmaps, score_changes, user_changes>>

(***************************************************************************)
(* recalculate_mode_users, process_user_chunk, recalculate_user            *)
(***************************************************************************)
\* process_user_chunk up to its gather: a task per id of chunk c of the mode
ScheduleUsers(tasks, mode, ids) ==
    [tasks EXCEPT ![mode] = [u \in UserIds |->
        IF \E i \in 1..Len(ids) : ids[i] = u
        THEN [NoUserTask EXCEPT !.st = "scheduled"]
        ELSE tasks[mode][u]]]

\* --no-stats
SkipUsers ==
    /\ main.pc = "users"
    /\ args.no_stats
    /\ main' = ToNextMode(main)
    /\ UNCHANGED <<fixed, run, snap, exit_code, scoreTask, userTask, scores_pp, stats,
                   redis, beatmaps, score_changes, user_changes>>

\* SELECT id FROM users returns; the first chunk is dispatched
LoadUsers ==
    /\ main.pc = "users"
    /\ ~args.no_stats
    /\ LET ids == SelectUserIds
       IN  IF ids = <<>>
           THEN /\ main' = ToNextMode(main)
                /\ UNCHANGED userTask
           ELSE /\ main' = [main EXCEPT !.pc = "user_gather", !.user_ids = ids, !.chunk = 1]
                /\ userTask' = ScheduleUsers(userTask, main.mode,
                                             divide_chunks(ids, ChunkSize)[1])
    /\ UNCHANGED <<fixed, run, snap, exit_code, scoreTask, scores_pp, stats, redis,
                   beatmaps, score_changes, user_changes>>

\* the task of user u starts: the SELECT of the best scores is sent
UserStart(u) ==
    /\ main.pc = "user_gather"
    /\ userTask[main.mode][u].st = "scheduled"
    /\ userTask' = [userTask EXCEPT ![main.mode][u].st = "fetching"]
    /\ UNCHANGED <<fixed, run, snap, main, exit_code, scoreTask, scores_pp, stats,
                   redis, beatmaps, score_changes, user_changes>>

\* an await of recalculate_user raises (a storage or leaderboard error)
UserRaises(u) ==
    /\ main.pc = "user_gather"
    /\ userTask[main.mode][u].st \in
           {"fetching", "upserting", "looking", "zadd_global", "zadd_country"}
    /\ userTask' = [userTask EXCEPT ![main.mode][u].st = "raised"]
    /\ main' = RU_raise(main)
    /\ UNCHANGED <<fixed, run, snap, exit_code, scoreTask, scores_pp, stats, redis,
                   beatmaps, score_changes, user_changes>>

\* a task that goes on to the user lookup although there is no best score
RU_no_scores_looking(task) == [task EXCEPT !.st = "looking"]

\* `if not total_scores: return`: the task of a user without best scores is over
RU_no_scores(task) == [task EXCEPT !.st = "done"]

\* the best scores arrive: nothing to do, or the aggregate and the upsert
UserFetch(u) ==
    /\ main.pc = "user_gather"
    /\ userTask[main.mode][u].st = "fetching"
    /\ LET best_scores == SelectBestScores(u, args_mode[main.mode], scores_pp)
           total_scores == Len(best_scores)
       IN  userTask' = [userTask EXCEPT ![main.mode][u] =
               IF total_scores = 0
               THEN RU_no_scores(@)
               ELSE [st |-> "upserting", pp |-> AggregatePP(best_scores),
                     acc |-> AggregateAcc(best_scores), total_scores |-> total_scores]]
    /\ UNCHANGED <<fixed, run, snap, main, exit_code, scoreTask, scores_pp, stats,
                   redis, beatmaps, score_changes, user_changes>>

\* the upsert returns; the user lookup is sent
UserUpsert(u) ==
    /\ main.pc = "user_gather"
    /\ userTask[main.mode][u].st = "upserting"
    /\ LET t == userTask[main.mode][u]
       IN  stats' = [stats EXCEPT ![main.mode][u] =
                        StatsUpsert(@, Some(t.pp), t.acc, t.total_scores)]
    /\ userTask' = [userTask EXCEPT ![main.mode][u].st = "looking"]
    /\ UNCHANGED <<fixed, run, snap, main, exit_code, scoreTask, scores_pp, redis,
                   beatmaps, score_changes, user_changes>>

\* the log entry of recalculate_user
UserRecord(u) ==
    LET t == userTask[main.mode][u]
    IN  [user_id |-> u, pp |-> t.pp, acc |-> Round3(t.acc), mode |-> args_mode[main.mode],
         total_scores |-> t.total_scores]

\* the user lookup returns a row
UserLookup(u) ==
    /\ main.pc = "user_gather"
    /\ userTask[main.mode][u].st = "looking"
    /\ IF HasBit(DB_users(u).priv, UNRESTRICTED)
       THEN /\ userTask' = [userTask EXCEPT ![main.mode][u].st = "zadd_global"]
            /\ UNCHANGED user_changes
       ELSE /\ userTask' = [userTask EXCEPT ![main.mode][u].st = "done"]
            /\ user_changes' = Append(user_changes, UserRecord(u))
    /\ UNCHANGED <<fixed, run, snap, main, exit_code, scoreTask, scores_pp, stats,
                   redis, beatmaps, score_changes>>

\* the user lookup returns None: raise Exception("Unknown user ID")
UserUnknown(u) ==
    /\ main.pc = "user_gather"
    /\ userTask[main.mode][u].st = "looking"
    /\ userTask' = [userTask EXCEPT ![main.mode][u].st = "raised"]
    /\ main' = RU_raise(main)
    /\ UNCHANGED <<fixed, run, snap, exit_code, scoreTask, scores_pp, stats, redis,
                   beatmaps, score_changes, user_changes>>

\* the zadd under the mode's global key returns
UserZaddGlobal(u) ==
    /\ main.pc = "user_gather"
    /\ userTask[main.mode][u].st = "zadd_global"
    /\ redis' = zadd(redis, <<args_mode[main.mode], "">>, u, userTask[main.mode][u].pp)
    /\ userTask' = [userTask EXCEPT ![main.mode][u].st = "zadd_country"]
    /\ UNCHANGED <<fixed, run, snap, main, exit_code, scoreTask, scores_pp, stats,
                   beatmaps, score_changes, user_changes>>

\* the zadd under the mode's country key returns, and the rest of recalculate_user
UserZaddCountry(u) ==
    /\ main.pc = "user_gather"
    /\ userTask[main.mode][u].st = "zadd_country"
    /\ redis' = zadd(redis, <<args_mode[main.mode], DB_users(u).country>>, u,
                     userTask[main.mode][u].pp)
    /\ userTask' = [userTask EXCEPT ![main.mode][u].st = "done"]
    /\ user_changes' = Append(user_changes, UserRecord(u))
    /\ UNCHANGED <<fixed, run, snap, main, exit_code, scoreTask, scores_pp, stats,
                   beatmaps, score_changes>>

\* gather returns to process_user_chunk: the next chunk is dispatched, or the next mode
UserJoin ==
    /\ main.pc = "user_gather"
    /\ main.exc = "none"
    /\ GatherReturns({userTask[main.mode][UserChunk[i]].st : i \in 1..Len(UserChunk)})
    /\ IF main.chunk * ChunkSize < Len(main.user_ids)
       THEN /\ main' = [main EXCEPT !.chunk = @ + 1]
            /\ userTask' = ScheduleUsers(userTask, main.mode,
                               divide_chunks(main.user_ids, ChunkSize)[main.chunk + 1])
       ELSE /\ main' = ToNextMode(main)
            /\ UNCHANGED userTask
    /\ UNCHANGED <<fixed, run, snap, exit_code, scoreTask, scores_pp, stats, redis,
                   beatmaps, score_changes, user_changes>>

\* a task that has not finished
InFlight(st) ==
    st \in {"scheduled", "updating", "fetching", "upserting", "looking", "zadd_global",
            "zadd_country"}

\* the exception gather raised leaves main: asyncio.run cancels what is left and the
\* process ends with a traceback
Abort ==
    /\ main.pc \in {"score_gather", "user_gather"}
    /\ main.exc # "none"
    /\ main' = [main EXCEPT !.pc = "aborted"]
    /\ exit_code' = Some(1)
    /\ scoreTask' = [s \in ScoreIds |->
           IF InFlight(scoreTask[s].st) THEN [scoreTask[s] EXCEPT !.st = "cancelled"]
           ELSE scoreTask[s]]
    /\ userTask' = [i \in ModeIdx |-> [u \in UserIds |->
           IF InFlight(userTask[i][u].st) THEN [userTask[i][u] EXCEPT !.st = "cancelled"]
           ELSE userTask[i][u]]]
    /\ UNCHANGED <<fixed, run, snap, scores_pp, stats, redis, beatmaps, score_changes,
                   user_changes>>

\* after the last mode: the log file is written and main returns 0
Finish ==
    /\ main.pc = "mode"
    /\ main.mode > NumModes
    /\ main' = [main EXCEPT !.pc = "done"]
    /\ exit_code' = Some(0)
    /\ UNCHANGED <<fixed, run, snap, scoreTask, userTask, scores_pp, stats, redis,
                   beatmaps, score_changes, user_changes>>

\* the tool is run a second time, with the same arguments, on what the first run left
Rerun ==
    /\ main.pc = "done"
    /\ run = 1
    /\ run' = 2
    /\ snap' = [scores_pp |-> scores_pp, stats |-> stats]
    /\ main' = MainStart
    /\ exit_code' = None
    /\ scoreTask' = [s \in ScoreIds |-> NoScoreTask]
    /\ userTask' = [i \in ModeIdx |-> [u \in UserIds |-> NoUserTask]]
    /\ beatmaps' = NoBeatmaps
    /\ score_changes' = <<>>
    /\ user_changes' = <<>>
    /\ UNCHANGED <<fixed, scores_pp, stats, redis>>

Next ==
    \/ LoadScores
    \/ LoadRaises
    \/ SkipScores
    \/ CheckAvailable
    \/ \E s \in ScoreIds : ScoreStart(s)
    \/ \E s \in ScoreIds : ScoreUpdate(s)
    \/ ScoreJoin
    \/ SkipUsers
    \/ LoadUsers
    \/ \E u \in UserIds : UserStart(u)
    \/ \E u \in UserIds : UserRaises(u)
    \/ \E u \in UserIds : UserFetch(u)
    \/ \E u \in UserIds : UserUpsert(u)
    \/ \E u \in UserIds : UserLookup(u)
    \/ \E u \in UserIds : UserUnknown(u)
    \/ \E u \in UserIds : UserZaddGlobal(u)
    \/ \E u \in UserIds : UserZaddCountry(u)
    \/ UserJoin
    \/ Abort
    \/ Finish
    \/ Rerun

Spec == Init /\ [][Next]_vars

\* the step ScoreStart(s) seen from outside: the scheduled task gets to its UPDATE
\* or raises
ScoreStarted(s) ==
    /\ scoreTask[s].st = "scheduled"
    /\ scoreTask'[s].st \in {"updating", "failed"}

\* weak fairness of ScoreStart(s), with ENABLED written as the guard of the action
ScoreStartFair(s) ==
    \/ []<>~(main.pc = "score_gather" /\ scoreTask[s].st = "scheduled")
    \/ []<><<ScoreStarted(s)>>_vars

\* the step UserFetch(u) seen from outside: the task has its best scores
UserFetched(u) ==
    /\ main.pc = "user_gather"
    /\ userTask[main.mode][u].st = "fetching"
    /\ userTask'[main.mode][u].st \in {"done", "upserting"}

\* weak fairness of UserFetch(u), with ENABLED written as the guard of the action
UserFetchFair(u) ==
    \/ []<>~(main.pc = "user_gather" /\ userTask[main.mode][u].st = "fetching")
    \/ []<><<UserFetched(u)>>_vars

\* the event loop runs every coroutine that can go on; nothing obliges a query to fail
\* or the tool to be run again
Fairness ==
    /\ WF_vars(LoadScores)
    /\ WF_vars(SkipScores)
    /\ WF_vars(CheckAvailable)
    /\ \A s \in ScoreIds : ScoreStartFair(s) /\ WF_vars(ScoreUpdate(s))
    /\ WF_vars(ScoreJoin)
    /\ WF_vars(SkipUsers)
    /\ WF_vars(LoadUsers)
    /\ \A u \in UserIds :
        /\ WF_vars(UserStart(u))
        /\ UserFetchFair(u)
        /\ WF_vars(UserUpsert(u))
        /\ WF_vars(UserLookup(u))
        /\ WF_vars(UserZaddGlobal(u))
        /\ WF_vars(UserZaddCountry(u))
    /\ WF_vars(UserJoin)
    /\ WF_vars(Abort)
    /\ WF_vars(Finish)

FairSpec == Spec /\ Fairness

(***************************************************************************)
(* Single calls of the two rating functions, on inputs drawn from bounded  *)
(* sets: the engine's result and the map are part of the input.            *)
(***************************************************************************)
AttrsTried ==
    [pp : {None, Fin(0), Fin(3000001), Fin(605000000), NaN, PosInf, NegInf, Fin(0 - Scale)},
     pp_aim : {None, Fin(0), Fin(1200000), Fin(600000000), NaN, PosInf, NegInf,
               Fin(0 - Scale)},
     pp_speed : {None, Fin(1000000), PosInf, NegInf},
     pp_flashlight : {None, Fin(12345), NaN}]

ModesTried == {0, 1, 4, 8}

BaseAttrs == [pp |-> Fin(3000001), pp_aim |-> Fin(1200000), pp_speed |-> Fin(1000000),
              pp_flashlight |-> None]

ScoreParams(mode, mods, acc, n300, n100, n50, ngeki, nkatu, nmiss) ==
    [mode |-> mode, mods |-> mods, combo |-> None, acc |-> acc, n300 |-> n300,
     n100 |-> n100, n50 |-> n50, ngeki |-> ngeki, nkatu |-> nkatu, nmiss |-> nmiss]

\* a call of calculate_performances on one score of map m
CallOn(m, score, map_length, apply_pp_cap, attrs) ==
    [osu_file_path |-> "1.osu", scores |-> <<score>>,
     map_title |-> DB_maps(m).title, map_artist |-> DB_maps(m).artist,
     map_creator |-> DB_maps(m).creator, map_set_id |-> Some(DB_maps(m).set_id),
     map_length |-> map_length, apply_pp_cap |-> apply_pp_cap, player_id |-> Some(1),
     attrs |-> attrs, cs |-> DB_maps(m).cs]

\* engine results of every kind, in capped and uncapped modes, with and without relax
CallsOnAttrs ==
    {CallOn(2, ScoreParams(mode, mods, None, Some(5), None, None, None, None, Some(0)),
            map_length, apply_pp_cap, attrs) :
        mode \in ModesTried, mods \in {Some(0), Some(128)}, map_length \in {None, Some(300)},
        apply_pp_cap \in BOOLEAN, attrs \in AttrsTried}

\* accuracy and hit counts given, missing and zero
CallsOnStatistics ==
    {CallOn(1, ScoreParams(0, None, acc, n300, n100, n50, ngeki, nkatu, None),
            None, TRUE, BaseAttrs) :
        acc \in {None, Fin(0), Fin(995000)}, n300 \in {None, Some(0), Some(5)},
        n100 \in {None, Some(0), Some(5)}, n50 \in {None, Some(0)},
        ngeki \in {None, Some(0), Some(1)}, nkatu \in {None, Some(2)}}

\* map lengths on both sides of every band boundary
LengthsTried == {0, 59, 60, 179, 180, 239, 240, 299, 300, 301}

\* maps of every length, and no length given
CallsOnLength ==
    {CallOn(1, ScoreParams(0, mods, Fin(995000), None, None, None, None, None, Some(2)),
            map_length, TRUE, BaseAttrs) :
        mods \in {Some(0), Some(128)},
        map_length \in {None} \cup {Some(l) : l \in LengthsTried}}

\* accuracies on both sides of every tier boundary, and 0
AccuraciesTried ==
    {Fin(0), Fin(949999), Fin(95 * Scale), Fin(969999), Fin(97 * Scale), Fin(979999),
     Fin(98 * Scale), Fin(989999), Fin(99 * Scale), Fin(999999), Fin(100 * Scale)}

\* plays of every accuracy
CallsOnAccuracy ==
    {CallOn(1, ScoreParams(0, mods, acc, None, None, None, None, None, None),
            Some(100), TRUE, BaseAttrs) :
        mods \in {Some(0), Some(128)}, acc \in AccuraciesTried}

\* mods given and not, with and without NC, DT and relax
ModsTried == {None, Some(0), Some(DOUBLETIME), Some(NIGHTCORE), Some(NIGHTCORE + DOUBLETIME),
              Some(NIGHTCORE + 128)}

\* plays under every combination of mods
CallsOnMods ==
    {CallOn(m, ScoreParams(0, mods, Fin(995000), None, None, None, None, None, nmiss),
            Some(100), TRUE, BaseAttrs) :
        m \in {1, 2}, mods \in ModsTried, nmiss \in {None, Some(3)}}

\* miss counts on both sides of the first count that the relax penalty changes
MissesTried == {0, 1, 19, 20, 21, 39, 40, 100}

\* plays of every miss count
CallsOnMisses ==
    {CallOn(1, ScoreParams(0, mods, Fin(995000), None, None, None, None, None, Some(nmiss)),
            Some(100), TRUE, BaseAttrs) :
        mods \in {Some(0), Some(128)}, nmiss \in MissesTried}

CallsTried ==
    CallsOnAttrs \cup CallsOnStatistics \cup CallsOnLength \cup CallsOnAccuracy
        \cup CallsOnMods \cup CallsOnMisses
    \cup {[CallOn(1, ScoreParams(0, None, None, None, None, None, None, None, None),
                  None, TRUE, BaseAttrs) EXCEPT !.osu_file_path = ""]}

\* rows of the SELECT of recalculate_mode_scores, with the engine's result for each
RowsTried ==
    {[score |-> [id |-> 1, userid |-> 1, mode |-> mode, mods |-> mods, pp |-> InitialPP(1),
                 acc |-> Fin(995000), nmiss |-> 0, map_id |-> m,
                 title |-> DB_maps(m).title, artist |-> DB_maps(m).artist,
                 creator |-> DB_maps(m).creator, set_id |-> DB_maps(m).set_id,
                 total_length |-> DB_maps(m).total_length],
      attrs |-> attrs, cs |-> DB_maps(m).cs] :
        mode \in ModesTried, mods \in {0, 128}, m \in {1, 2}, attrs \in AttrsTried}

\* a row of the SELECT for a score on map m, with the columns given
RowOn(m, mode, mods, acc, nmiss, total_length, attrs) ==
    [score |-> [id |-> 1, userid |-> 1, mode |-> mode, mods |-> mods, pp |-> InitialPP(1),
                acc |-> acc, nmiss |-> nmiss, map_id |-> m,
                title |-> DB_maps(m).title, artist |-> DB_maps(m).artist,
                creator |-> DB_maps(m).creator, set_id |-> DB_maps(m).set_id,
                total_length |-> total_length],
     attrs |-> attrs, cs |-> DB_maps(m).cs]

\* rows of maps of every length
RowsOnLength ==
    {RowOn(1, 0, mods, Fin(995000), 2, l, BaseAttrs) : mods \in {0, 128}, l \in LengthsTried}

\* titles and artists with and without a pattern, in several cases of letters
TitlesTried ==
    {<<"F","D">>,
     <<"S","p","e","d"," ","U","p">>,
     <<"a"," ","S","P","E","E","D","-","U","P"," ","m","i","x">>,
     <<"s","p","e","e","d","u","p">>,
     <<"o","v","e","r"," ","S","p","e","e","d","-","u","p"," ","p","a","c","k">>}

ArtistsTried == {<<"x","i">>, <<"S","p","e","e","d"," ","u","p"," ","c","r","e","w">>}

\* mappers of the table, one that differs from an entry by the case of a letter,
\* and one that is not in it
CreatorsTried == (DOMAIN MAPPER_NERFS) \cup {"Hool", "Nakagawa"}

\* arguments of should_nerf_map
NerfCallsTried ==
    [title : TitlesTried, artist : ArtistsTried, creator : CreatorsTried,
     set_id : {77, 39804}, mods : {0, 64, 128, 192}]

\* should_nerf_map is called
Call_should_nerf_map ==
    /\ cpFn = "idle"
    /\ \E a \in NerfCallsTried :
        /\ cpFn' = "should_nerf_map"
        /\ cpIn' = a
        /\ cpOut' = [status |-> "returned",
                     multiplier |-> should_nerf_map(a.title, a.artist, a.creator, a.set_id,
                                                    a.mods)]
    /\ UNCHANGED <<runVars, now, authVars, tokenVars>>

\* rows of every accuracy
RowsOnAccuracy ==
    {RowOn(1, 0, mods, acc, 0, 100, BaseAttrs) : mods \in {0, 128}, acc \in AccuraciesTried}

\* rows of every miss count
RowsOnMisses ==
    {RowOn(1, 0, mods, Fin(995000), nmiss, 100, BaseAttrs) :
        mods \in {0, 128}, nmiss \in MissesTried}

\* calculate_performances is called
Call_calculate_performances ==
    /\ cpFn = "idle"
    /\ \E a \in CallsTried :
        /\ cpFn' = "calculate_performances"
        /\ cpIn' = a
        /\ cpOut' = calculate_performances(a)
    /\ UNCHANGED <<runVars, now, authVars, tokenVars>>

\* what the engine is given for each score of a call: the Performance(...) arguments
EngineInputs(a) ==
    [i \in 1..Len(a.scores) |->
        LET score == a.scores[i]
            mods == CP_mods(score.mods)
        IN  [mods |-> OrZero(mods).v, combo |-> score.combo, accuracy |-> score.acc,
             n300 |-> score.n300, n100 |-> score.n100, n50 |-> score.n50,
             n_geki |-> score.ngeki, n_katu |-> score.nkatu,
             misses |-> CP_adjusted_misses(score.nmiss, HasBit(OrZero(mods).v, 128))]]

\* engine results the engine may give when it is given something else
AttrsAgain == {BaseAttrs, [BaseAttrs EXCEPT !.pp = Fin(3500001)]}

\* calculate_performances is called a second time with the arguments of the call
\* that returned: on the caller's ScoreParams objects as the first call left them
\* (reuse), or on fresh objects equal to the ones the first call was given.  The
\* engine gives the same result when it is given the same arguments.
Call_calculate_performances_again ==
    /\ cpFn = "calculate_performances"
    /\ cpIn.osu_file_path # ""
    /\ \E reuse \in BOOLEAN :
        LET again == IF reuse THEN [cpIn EXCEPT !.scores = cpOut.scores] ELSE cpIn
        IN  \E attrs \in IF EngineInputs(again) = EngineInputs(cpIn)
                         THEN {cpIn.attrs} ELSE AttrsAgain :
                /\ cpFn' = "calculate_performances_again"
                /\ cpOut' = [status |-> "returned", reuse |-> reuse, first |-> cpOut,
                             second |-> calculate_performances([again EXCEPT !.attrs = attrs])]
    /\ UNCHANGED cpIn
    /\ UNCHANGED <<runVars, now, authVars, tokenVars>>

\* recalculate_score runs on a row whose beatmap parses, with an engine and an
\* UPDATE that do not raise: scores_pp is the row's scores.pp afterwards
Call_recalculate_score ==
    /\ cpFn = "idle"
    /\ \E r \in RowsTried \cup RowsOnLength \cup RowsOnAccuracy \cup RowsOnMisses :
        LET p == RS_pipeline(r.score, r.attrs, r.cs)
        IN  /\ cpFn' = "recalculate_score"
            /\ cpIn' = r
            /\ cpOut' = [status |-> "returned",
                         scores_pp |-> ScoresUpdate([id \in {r.score.id} |-> r.score.pp],
                                                    r.score.id, p.new_pp)[r.score.id],
                         trace |-> p]
    /\ UNCHANGED <<runVars, now, authVars, tokenVars>>

\* ratings and accuracies of best scores
BestPPTried == {Fin(1000 * Scale), Fin(500 * Scale), Fin(3000001), Fin(5)}
BestAccTried == {Fin(99 * Scale), Fin(98 * Scale), Fin(100 * Scale)}
BestRowsTried == [pp : BestPPTried, acc : BestAccTried]

\* what the SELECT of recalculate_user may return: up to three rows, ORDER BY pp DESC
BestScoresTried ==
    {b \in {<<>>} \cup {<<x>> : x \in BestRowsTried}
               \cup {<<x, y>> : x, y \in BestRowsTried}
               \cup {<<x, y, z>> : x, y, z \in BestRowsTried} :
        \A i \in 1..(Len(b) - 1) : b[i].pp.v >= b[i + 1].pp.v}

\* recalculate_user runs to its end on the rows its SELECT returns, for a user that
\* exists, with a store and a leaderboard that do not raise: the user's stats row,
\* leaderboard members and log entries afterwards
Call_recalculate_user ==
    /\ cpFn = "idle"
    /\ \E best_scores \in BestScoresTried, u \in UserIds, i \in ModeIdx :
        LET total_scores == Len(best_scores)
            pp == AggregatePP(best_scores)
            acc == AggregateAcc(best_scores)
            keys == {<<args_mode[i], "">>, <<args_mode[i], DB_users(u).country>>}
            listed == HasBit(DB_users(u).priv, UNRESTRICTED)
        IN  /\ cpFn' = "recalculate_user"
            /\ cpIn' = [id |-> u, game_mode |-> args_mode[i], best_scores |-> best_scores,
                        stats |-> InitialStats[i][u],
                        redis |-> [k \in keys |-> InitialRedis[k][u]]]
            /\ cpOut' =
                IF total_scores = 0
                THEN [status |-> "returned", stats |-> InitialStats[i][u],
                      redis |-> [k \in keys |-> InitialRedis[k][u]], user_changes |-> <<>>]
                ELSE [status |-> "returned",
                      stats |-> StatsUpsert(InitialStats[i][u], Some(pp), acc, total_scores),
                      redis |-> [k \in keys |->
                          IF listed THEN zadd(InitialRedis, k, u, pp)[k][u]
                          ELSE InitialRedis[k][u]],
                      user_changes |-> <<[user_id |-> u, pp |-> pp, acc |-> Round3(acc),
                                          mode |-> args_mode[i],
                                          total_scores |-> total_scores]>>]
    /\ UNCHANGED <<runVars, now, authVars, tokenVars>>

\* stored scores with and without NC, DT and relax, with and without misses
RowsOnMods ==
    {RowOn(1, 0, mods, acc, nmiss, 100, BaseAttrs) :
        mods \in {0, DOUBLETIME, NIGHTCORE, NIGHTCORE + DOUBLETIME, 128},
        acc \in {Fin(100 * Scale), Fin(96 * Scale)}, nmiss \in {0, 3, 20}}

\* the call of calculate_performances for a stored score: its hit counts (the
\* score's own, here 5 and 1), mods, map metadata, length and player id, the cap on
CallForRow(r) ==
    [osu_file_path |-> "1.osu",
     scores |-> <<ScoreParams(r.score.mode, Some(r.score.mods), None, Some(5), Some(1), None,
                              None, None, Some(r.score.nmiss))>>,
     map_title |-> r.score.title, map_artist |-> r.score.artist,
     map_creator |-> r.score.creator, map_set_id |-> Some(r.score.set_id),
     map_length |-> Some(r.score.total_length), apply_pp_cap |-> TRUE,
     player_id |-> Some(r.score.userid), attrs |-> r.attrs, cs |-> r.cs]

\* recalculate_score persists the rating of a stored score and calculate_performances
\* is called for the same score.  The engine gives calculate_performances the result
\* it gave recalculate_score when it is given the same mods and misses.
Call_recalculate_score_and_calculate ==
    /\ cpFn = "idle"
    /\ \E r \in RowsOnAccuracy \cup RowsOnLength \cup RowsOnMods :
        LET p == RS_pipeline(r.score, r.attrs, r.cs)
            a == CallForRow(r)
            same == /\ EngineInputs(a)[1].mods = p.engine_mods
                    /\ EngineInputs(a)[1].misses = p.engine_misses
        IN  \E attrs \in IF same THEN {r.attrs} ELSE AttrsAgain :
                /\ cpFn' = "recalculate_score_and_calculate"
                /\ cpIn' = r
                /\ cpOut' = [status |-> "returned", same_engine_call |-> same,
                             persisted |-> p.new_pp,
                             calculated |-> calculate_performances([a EXCEPT !.attrs = attrs])]
    /\ UNCHANGED <<runVars, now, authVars, tokenVars>>

\* the call is over; the next one starts from scratch
CallReturn ==
    /\ cpFn # "idle"
    /\ cpFn' = "idle"
    /\ cpIn' = None
    /\ cpOut' = None
    /\ UNCHANGED <<runVars, now, authVars, tokenVars>>

CalcInit ==
    /\ Init
    /\ args = [no_scores |-> FALSE, no_stats |-> FALSE]
    /\ faults = [kind |-> "none", target |-> 0]

CalcNext ==
    \/ Call_calculate_performances
    \/ Call_calculate_performances_again
    \/ Call_recalculate_score
    \/ Call_should_nerf_map
    \/ Call_recalculate_user
    \/ Call_recalculate_score_and_calculate
    \/ CallReturn

CalcSpec == CalcInit /\ [][CalcNext]_vars

(***************************************************************************)
(* API v2: get_api_key_user, require_api_key and the api_keys endpoints.   *)
(***************************************************************************)
Bearer(api_key) == <<"Bearer ">> \o api_key

\* the Authorization headers tried: none, empty, another scheme, a bearer token
\* that is no API key, the keys of the rows, and a key unknown until it is created
AuthorizationsTried ==
    { <<>>, <<"Basic ", "k1">>, Bearer(<<"other_", "k1">>) }
    \cup { Bearer(PlainKey(name)) : name \in {"k1", "k2", "k3", "k4", "k5"} }

\* the requests tried: GET /api_keys under every header, the other endpoints
\* under the keys of the two users
RequestsTried ==
    { [endpoint |-> "list", key_id |-> 0, expires_in_days |-> 0, description |-> "",
       authorization |-> a] : a \in AuthorizationsTried }
    \cup { [endpoint |-> "revoke", key_id |-> q[1], expires_in_days |-> 0,
            description |-> "", authorization |-> Bearer(PlainKey(q[2]))] :
            q \in {<<1, "k1">>, <<1, "k4">>, <<4, "k4">>, <<9, "k1">>} }
    \cup { [endpoint |-> "update", key_id |-> 1, expires_in_days |-> 0, description |-> d,
            authorization |-> Bearer(PlainKey("k1"))] : d \in {"", "new"} }
    \cup { [endpoint |-> "create", key_id |-> 0, expires_in_days |-> n, description |-> "new",
            authorization |-> Bearer(PlainKey("k1"))] : n \in {0, 1} }

\* the rows a SELECT ... WHERE api_key_hash = :api_key_hash finds
RowsByHash(h) == {i \in 1..Len(api_keys) : api_keys[i].api_key_hash = h}

\* fetch_one(api_key_hash=h): whether it finds a row, and the row
FoundByHash(h) == RowsByHash(h) # {}

FetchByHash(h) == api_keys[CHOOSE i \in RowsByHash(h) : TRUE]

\* get_api_key_user up to its first await: TRUE when it goes on to look the key up
GAKU_is_api_key(authorization) ==
    /\ authorization # <<>>
    /\ startswith(authorization, "Bearer ")
    /\ startswith(Tail(authorization), "bancho_v2_")

\* the key is the header without "Bearer "
GAKU_api_key(authorization) == Tail(authorization)

\* the request arrives: get_api_key_user runs to fetch_one, or returns None and
\* require_api_key answers 401
Arrive(r) ==
    /\ authReq[r].pc = "new"
    /\ \E q \in RequestsTried :
        LET h == hash_api_key(GAKU_api_key(q.authorization))
            arrived == [authReq[r] EXCEPT !.endpoint = q.endpoint, !.key_id = q.key_id,
                            !.expires_in_days = q.expires_in_days,
                            !.description = q.description,
                            !.authorization = q.authorization, !.began = now]
        IN  IF GAKU_is_api_key(q.authorization)
            THEN authReq' = [authReq EXCEPT ![r] =
                    [arrived EXCEPT !.pc = "fetch_key",
                        !.was_revoked = FoundByHash(h) /\ FetchByHash(h).revoked]]
            ELSE authReq' = [authReq EXCEPT ![r] =
                    [arrived EXCEPT !.pc = "done", !.auth = "none", !.response = 401]]
    /\ UNCHANGED <<runVars, pureVars, now, api_keys, lastUsed, tokenVars>>

\* the 401 get_api_key_user raises for the row fetch_one gave, "" when it raises none
GAKU_rejects_expired_only(found, key_data) ==
    IF ~found THEN "Invalid API key"
    ELSE IF key_data.expires_at # None /\ key_data.expires_at.v < now
         THEN "API key has expired"
    ELSE ""

GAKU_rejects(found, key_data) ==
    IF ~found THEN "Invalid API key"
    ELSE IF key_data.revoked THEN "API key has been revoked"
    ELSE IF key_data.expires_at # None /\ key_data.expires_at.v < now
         THEN "API key has expired"
    ELSE ""

\* fetch_one answers: the three checks, then the update_last_used task is created
\* and the user is asked for
AuthFetchKey(r) ==
    /\ authReq[r].pc = "fetch_key"
    /\ LET h == hash_api_key(GAKU_api_key(authReq[r].authorization))
           found == FoundByHash(h)
           key_data == IF found THEN FetchByHash(h) ELSE NoKeyData
           detail == GAKU_rejects(found, key_data)
       IN  IF detail # ""
           THEN /\ authReq' = [authReq EXCEPT ![r].pc = "done", ![r].auth = "401",
                                  ![r].detail = detail, ![r].response = 401]
                /\ UNCHANGED lastUsed
           ELSE /\ authReq' = [authReq EXCEPT ![r].pc = "fetch_user",
                                  ![r].key_data = key_data]
                /\ lastUsed' = [lastUsed EXCEPT ![r] = "pending"]
    /\ UNCHANGED <<runVars, pureVars, now, api_keys, tokenVars>>

\* what get_api_key_user comes to once the user's row is in: it does not look at
\* the task
GAKU_outcome_of_task(user_data, task) ==
    IF task = "failed" \/ user_data = None THEN "401" ELSE "user"

GAKU_outcome(user_data, task) == IF user_data = None THEN "401" ELSE "user"

\* create_api_key before its first await: the expiry of the new key
CAK_expires_at(expires_in_days) ==
    IF expires_in_days # 0 THEN Some(now + expires_in_days) ELSE None

\* where the endpoint's handler first awaits
HandlerEntry(endpoint) ==
    CASE endpoint = "list" -> "h_list"
      [] endpoint = "create" -> "h_insert"
      [] OTHER -> "h_fetch"

\* users_repo.fetch_one answers: get_api_key_user raises 401 or returns the user,
\* require_api_key passes it on and the handler runs to its first await
AuthFetchUser(r) ==
    /\ authReq[r].pc = "fetch_user"
    /\ LET user_data == users_fetch_one(authReq[r].key_data.user_id)
           auth == GAKU_outcome(user_data, lastUsed[r])
       IN  IF auth = "401"
           THEN authReq' = [authReq EXCEPT ![r].pc = "done", ![r].auth = "401",
                              ![r].detail = "User not found", ![r].response = 401]
           ELSE authReq' = [authReq EXCEPT ![r].pc = HandlerEntry(authReq[r].endpoint),
                              ![r].auth = "user", ![r].user = user_data,
                              ![r].expires_at =
                                  IF authReq[r].endpoint = "create"
                                  THEN CAK_expires_at(authReq[r].expires_in_days)
                                  ELSE None]
    /\ UNCHANGED <<runVars, pureVars, now, api_keys, lastUsed, tokenVars>>

\* the task runs: update_last_used sets last_used_at = NOW() where the hash matches
update_last_used(api_key_hash) ==
    [i \in 1..Len(api_keys) |->
        IF api_keys[i].api_key_hash = api_key_hash
        THEN [api_keys[i] EXCEPT !.last_used_at = Some(now)]
        ELSE api_keys[i]]

LastUsedRun(r) ==
    /\ lastUsed[r] = "pending"
    /\ api_keys' = update_last_used(authReq[r].key_data.api_key_hash)
    /\ lastUsed' = [lastUsed EXCEPT ![r] = "done"]
    /\ UNCHANGED <<runVars, pureVars, now, authReq, tokenVars>>

\* the task's query raises: the exception stays in the task
LastUsedFail(r) ==
    /\ lastUsed[r] = "pending"
    /\ lastUsed' = [lastUsed EXCEPT ![r] = "failed"]
    /\ UNCHANGED <<runVars, pureVars, now, api_keys, authReq, tokenVars>>

\* list_api_keys: fetch_many answers
HandlerList(r) ==
    /\ authReq[r].pc = "h_list"
    /\ authReq' = [authReq EXCEPT ![r].pc = "done", ![r].response = 200]
    /\ UNCHANGED <<runVars, pureVars, now, api_keys, lastUsed, tokenVars>>

\* revoke_api_key and update_api_key: fetch_one(id=key_id) answers, 404 without a
\* row, 403 for another user's key
HandlerFetchKey(r) ==
    /\ authReq[r].pc = "h_fetch"
    /\ LET id == authReq[r].key_id
       IN  IF id \notin 1..Len(api_keys)
           THEN authReq' = [authReq EXCEPT ![r].pc = "done", ![r].response = 404]
           ELSE IF api_keys[id].user_id # authReq[r].user.v
           THEN authReq' = [authReq EXCEPT ![r].pc = "done", ![r].response = 403]
           ELSE IF authReq[r].endpoint = "update" /\ authReq[r].description = ""
           THEN authReq' = [authReq EXCEPT ![r].pc = "h_refetch"]
           ELSE authReq' = [authReq EXCEPT ![r].pc =
                               IF authReq[r].endpoint = "revoke" THEN "h_revoke"
                               ELSE "h_update"]
    /\ UNCHANGED <<runVars, pureVars, now, api_keys, lastUsed, tokenVars>>

\* revoke(id): UPDATE api_keys SET revoked = TRUE WHERE id = :id
revoke_clearing(id) == [api_keys EXCEPT ![id].revoked = ~api_keys[id].revoked]

revoke(id) == [api_keys EXCEPT ![id].revoked = TRUE]

RevokeExecute(r) ==
    /\ authReq[r].pc = "h_revoke"
    /\ api_keys' = revoke(authReq[r].key_id)
    /\ authReq' = [authReq EXCEPT ![r].pc = "done", ![r].response = 200]
    /\ UNCHANGED <<runVars, pureVars, now, lastUsed, tokenVars>>

\* update(id, description): UPDATE api_keys SET description = :description
update(id, description) == [api_keys EXCEPT ![id].description = description]

UpdateExecute(r) ==
    /\ authReq[r].pc = "h_update"
    /\ api_keys' = update(authReq[r].key_id, authReq[r].description)
    /\ authReq' = [authReq EXCEPT ![r].pc = "h_refetch"]
    /\ UNCHANGED <<runVars, pureVars, now, lastUsed, tokenVars>>

\* update_api_key and create_api_key: the row is fetched again for the response
HandlerRefetch(r) ==
    /\ authReq[r].pc = "h_refetch"
    /\ authReq' = [authReq EXCEPT ![r].pc = "done", ![r].response = 200]
    /\ UNCHANGED <<runVars, pureVars, now, api_keys, lastUsed, tokenVars>>

\* create(user_id, api_key_hash, ..., expires_at): INSERT INTO api_keys; the row
\* gets the next id, is not revoked and has never been used
create(user_id, expires_at) ==
    LET id == Len(api_keys) + 1
    IN  Append(api_keys,
               ApiKeyRow(id, user_id, NewKeyNames[id - Len(InitialApiKeys)], expires_at))

CreateInsert(r) ==
    /\ authReq[r].pc = "h_insert"
    /\ api_keys' = create(authReq[r].user.v, authReq[r].expires_at)
    /\ authReq' = [authReq EXCEPT ![r].pc = "h_refetch"]
    /\ UNCHANGED <<runVars, pureVars, now, lastUsed, tokenVars>>

\* time passes
Tick ==
    /\ now < MaxTime
    /\ now' = now + 1
    /\ UNCHANGED <<runVars, pureVars, authVars, tokenVars>>

AuthNext ==
    \/ \E r \in ReqIds : Arrive(r)
    \/ \E r \in ReqIds : AuthFetchKey(r)
    \/ \E r \in ReqIds : AuthFetchUser(r)
    \/ \E r \in ReqIds : LastUsedRun(r)
    \/ \E r \in ReqIds : LastUsedFail(r)
    \/ \E r \in ReqIds : HandlerList(r)
    \/ \E r \in ReqIds : HandlerFetchKey(r)
    \/ \E r \in ReqIds : RevokeExecute(r)
    \/ \E r \in ReqIds : UpdateExecute(r)
    \/ \E r \in ReqIds : HandlerRefetch(r)
    \/ \E r \in ReqIds : CreateInsert(r)
    \/ Tick

AuthSpec == CalcInit /\ [][AuthNext]_vars

(***************************************************************************)
(* osu! API v2: get_oauth_token and the module's token cache.              *)
(***************************************************************************)
\* the seconds the cache takes off a token's life
ExpiryBuffer == 300

\* expires_in when the answer has none
DefaultExpiresIn == 86400

\* the expires_in the token endpoint answers with: none, and lives shorter than,
\* equal to and longer than the buffer
ExpiresInTried == {None, Some(200), Some(300), Some(400), Some(500)}

\* the seconds between two looks at the clock
TickSeconds == 100

\* the cache holds a token that has not expired at time t
GOT_valid_at_expiry(token, t) == token.cached /\ token.expires_at >= t

GOT_valid(token, t) == token.cached /\ token.expires_at > t

\* the call starts: the cached token is returned, or the settings are missing and
\* ValueError is raised, or the token request is sent
GetTokenStart(c) ==
    /\ tokenCall[c].pc = "new"
    /\ \E configured \in BOOLEAN :
        LET call == [tokenCall[c] EXCEPT !.configured = configured, !.checked = now,
                        !.saw = oauth_token]
        IN  IF GOT_valid(oauth_token, now)
            THEN tokenCall' = [tokenCall EXCEPT ![c] =
                    [call EXCEPT !.pc = "done", !.outcome = "cached",
                        !.returned = Some(oauth_token.access_token)]]
            ELSE IF ~configured
            THEN tokenCall' = [tokenCall EXCEPT ![c] =
                    [call EXCEPT !.pc = "done", !.outcome = "ValueError"]]
            ELSE tokenCall' = [tokenCall EXCEPT ![c] =
                    [call EXCEPT !.pc = "posting", !.posted = TRUE]]
    /\ UNCHANGED <<runVars, pureVars, now, authVars, oauth_token, issued>>

\* the token cached for an answer received at time t
GOT_token(access_token, expires_in, t) ==
    [cached |-> TRUE, access_token |-> access_token,
     expires_at |-> t + ((IF expires_in = None THEN DefaultExpiresIn ELSE expires_in.v)
                         - ExpiryBuffer)]

\* the token endpoint answers with a new token: it is cached and returned
PostAnswers(c) ==
    /\ tokenCall[c].pc = "posting"
    /\ \E expires_in \in ExpiresInTried :
        /\ issued' = issued + 1
        /\ oauth_token' = GOT_token(issued + 1, expires_in, now)
        /\ tokenCall' = [tokenCall EXCEPT ![c].pc = "done", ![c].outcome = "fetched",
                            ![c].expires_in = expires_in,
                            ![c].returned = Some(oauth_token'.access_token)]
    /\ UNCHANGED <<runVars, pureVars, now, authVars>>

\* the request fails, raise_for_status raises or the answer has no access_token
PostFails(c) ==
    /\ tokenCall[c].pc = "posting"
    /\ tokenCall' = [tokenCall EXCEPT ![c].pc = "done", ![c].outcome = "raised"]
    /\ UNCHANGED <<runVars, pureVars, now, authVars, oauth_token, issued>>

\* time passes
TokenTick ==
    /\ now < MaxTime * TickSeconds
    /\ now' = now + TickSeconds
    /\ UNCHANGED <<runVars, pureVars, authVars, tokenVars>>

TokenNext ==
    \/ \E c \in CallerIds : GetTokenStart(c)
    \/ \E c \in CallerIds : PostAnswers(c)
    \/ \E c \in CallerIds : PostFails(c)
    \/ TokenTick

TokenSpec == CalcInit /\ [][TokenNext]_vars

(***************************************************************************)
(* Properties of the run.                                                  *)
(***************************************************************************)
\* a task that has finished (a skipped score never had one)
Completed(st) == st \in {"skipped", "done", "failed", "raised"}

\* a task the event loop has been given
Dispatched(st) == st \notin {"none", "created", "skipped"}

\* the chunk of the item at position i of a list
ChunkOf(i) == (i - 1) \div ChunkSize + 1

InFlightScores == {s \in ScoreIds : InFlight(scoreTask[s].st)}
InFlightUsers == {<<i, u>> \in ModeIdx \X UserIds : InFlight(userTask[i][u].st)}

\* C1: the chunks of a mode's scores and of its users are processed one after the
\* other: no task of a later chunk is dispatched before every task of the earlier
\* chunks has completed, and the tasks in flight never outnumber a chunk.
C1_ChunksSequential ==
    /\ Cardinality(InFlightScores) + Cardinality(InFlightUsers) <= ChunkSize
    /\ \A i, j \in 1..Len(main.scores) :
        (ChunkOf(i) < ChunkOf(j) /\ Dispatched(scoreTask[main.scores[j].id].st))
            => Completed(scoreTask[main.scores[i].id].st)
    /\ \A m \in ModeIdx : \A i, j \in 1..Len(SelectUserIds) :
        (ChunkOf(i) < ChunkOf(j) /\ Dispatched(userTask[m][SelectUserIds[j]].st))
            => Completed(userTask[m][SelectUserIds[i]].st)

\* a task of the second chunk of scores is in flight, and so is one of the second
\* chunk of users in another state
C1_SecondChunkInFlight ==
    \/ /\ main.pc = "score_gather"
       /\ main.chunk = 2
       /\ \E i \in 1..Len(main.scores) :
            ChunkOf(i) = 2 /\ scoreTask[main.scores[i].id].st = "updating"
    \/ /\ main.pc = "user_gather"
       /\ main.chunk = 2
       /\ \E i \in 1..Len(SelectUserIds) :
            ChunkOf(i) = 2 /\ userTask[main.mode][SelectUserIds[i]].st = "fetching"

\* the scores whose recalculation raises under the run's faults
RaisingScores ==
    {s \in ScoreIds : \/ BeatmapRaises(DB_scores(s).map_id)
                      \/ CalculateRaises(s)
                      \/ UpdateRaises(s)
                      \/ ReportRaises(s)}

\* the value a run without failures persists for a row of the mode's scores
FaultFreePP(score) ==
    RS_pipeline(score, EngineAttrs(score.id), DB_maps(score.map_id).cs).new_pp

\* the score phase of the current mode is over: main went on to the users, or stopped
ScorePhaseOver ==
    /\ main.mode \in ModeIdx
    /\ \/ main.phase = "users"
       \/ main.phase = "scores" /\ main.pc = "aborted"

\* C2: when the recalculation of a score raises (engine, beatmap parse or UPDATE),
\* every other available score of the mode, in the same chunk and in the later ones,
\* is still recalculated and persisted with the value of a run without the failure.
C2_ScoreFailureIsolated ==
    ScorePhaseOver =>
        \A i \in 1..Len(main.scores) :
            LET s == main.scores[i].id
            IN  (s \notin RaisingScores /\ ensure_osu_file_is_available(s))
                    => /\ scoreTask[s].st = "done"
                       /\ scores_pp[s] = FaultFreePP(main.scores[i])

\* a score of the first chunk has raised; another of its chunk and one of the next
\* chunk are persisted
C2_FailedAmongPersisted ==
    /\ ScorePhaseOver
    /\ \E i, j, k \in 1..Len(main.scores) :
        /\ i # j
        /\ ChunkOf(i) = ChunkOf(j)
        /\ ChunkOf(k) > ChunkOf(i)
        /\ scoreTask[main.scores[i].id].st = "failed"
        /\ scoreTask[main.scores[j].id].st = "done"
        /\ scoreTask[main.scores[k].id].st = "done"
        /\ scores_pp[main.scores[j].id] = FaultFreePP(main.scores[j])
        /\ scores_pp[main.scores[k].id] = FaultFreePP(main.scores[k])

\* C3: a failure in one user's recalculation does not stop the chunk or the run:
\* when the run has ended, every user whose own task did not raise has been
\* processed, in every requested mode.
C3_UserFailureIsolated ==
    (main.pc \in {"done", "aborted"} /\ main.exc # "load" /\ ~args.no_stats)
        => \A m \in ModeIdx : \A u \in UserIds :
               userTask[m][u].st \in {"done", "raised"}

\* C4: unless a bulk load fails, main gets to its end, through every mode, and
\* returns 0.
C4_RunAlwaysFinishes ==
    <>((main.pc = "done" /\ exit_code = Some(0)) \/ main.exc = "load")

\* C5: a second run over unchanged data leaves every scores.pp and every stats
\* row (pp, acc, plays) as the first run left them.
C5_SecondRunChangesNothing ==
    (run = 2 /\ main.pc = "done")
        => /\ scores_pp = snap.scores_pp
           /\ \A m \in ModeIdx : \A u \in UserIds :
                /\ stats[m][u].exists = snap.stats[m][u].exists
                /\ stats[m][u].pp = snap.stats[m][u].pp
                /\ stats[m][u].acc = snap.stats[m][u].acc
                /\ stats[m][u].plays = snap.stats[m][u].plays

\* the second run has ended after rewriting scores and stats rows that the first
\* run had changed
C5_SecondRunDone ==
    /\ run = 2
    /\ main.pc = "done"
    /\ Len(score_changes) >= 2
    /\ Len(user_changes) >= 2
    /\ \E s \in ScoreIds : scores_pp[s] # InitialPP(s)
    /\ stats # InitialStats

(***************************************************************************)
(* Properties of the ratings.                                              *)
(***************************************************************************)
NonFinite(x) == isnan(x) \/ isinf(x)

\* calculate_performances has returned a result for its one score
Rated == cpFn = "calculate_performances" /\ cpOut.status = "returned" /\ Len(cpOut.results) = 1

\* recalculate_score has persisted a rating
Persisted == cpFn = "recalculate_score" /\ cpOut.status = "returned"

\* C6: whenever a value of the adjustment pipeline is NaN, +Infinity or -Infinity,
\* the rating returned by calculate_performances and the rating persisted by
\* recalculate_score is exactly 0.0, in every mode, with and without the cap stage.
C6_NonFiniteCollapses ==
    /\ Rated => ((\E x \in cpOut.results[1].intermediates : NonFinite(x))
                    => cpOut.results[1].pp = Fin(0))
    /\ Persisted => ((\E x \in cpOut.trace.intermediates : NonFinite(x))
                        => cpOut.scores_pp = Fin(0))

\* a component of the engine's result that is absent, non-finite or not negative
NotNegative(x) == x = None \/ NonFinite(x) \/ (x.k = "fin" /\ x.v >= 0)

EngineNotNegative(attrs) ==
    /\ NotNegative(attrs.pp)
    /\ NotNegative(attrs.pp_aim)
    /\ NotNegative(attrs.pp_speed)
    /\ NotNegative(attrs.pp_flashlight)

\* C7: for an engine result whose components are each non-negative or non-finite,
\* the rating returned by calculate_performances and the rating written to scores.pp
\* is a finite number that is not negative.
C7_RatingFiniteNotNegative ==
    /\ (Rated /\ EngineNotNegative(cpIn.attrs))
        => (cpOut.results[1].pp.k = "fin" /\ cpOut.results[1].pp.v >= 0)
    /\ (Persisted /\ EngineNotNegative(cpIn.attrs))
        => (cpOut.scores_pp.k = "fin" /\ cpOut.scores_pp.v >= 0)

\* the pipeline of recalculate_score ended on -Infinity and 0.0 was persisted
C7_MinusInfinityPersistedAsZero ==
    /\ Persisted
    /\ EngineNotNegative(cpIn.attrs)
    /\ cpIn.attrs.pp_speed = NegInf
    /\ cpOut.trace.post_cap = NegInf
    /\ cpOut.scores_pp = Fin(0)

\* C8: every rating the batch stores in scores.pp is rounded to 3 decimal places.
C8_StoredRatingRounded ==
    \A s \in ScoreIds : scoreTask[s].st = "done" => scores_pp[s] = Round3(scores_pp[s])

\* a score supplies an accuracy together with one of n300, n100, n50, ngeki, nkatu
SuppliesBoth(score) ==
    /\ score.acc # None
    /\ \/ score.n300 # None
       \/ score.n100 # None
       \/ score.n50 # None
       \/ score.ngeki # None
       \/ score.nkatu # None

\* C9: calculate_performances raises ValueError, and returns nothing, for every
\* score that supplies an accuracy together with a hit count, whatever the values.
C9_BothSuppliedRaises ==
    (/\ cpFn = "calculate_performances"
     /\ cpIn.osu_file_path # ""
     /\ \E i \in 1..Len(cpIn.scores) : SuppliesBoth(cpIn.scores[i]))
        => (cpOut.status = "ValueError" /\ cpOut.results = <<>>)

\* the ceilings: 55000 for mode 0 and mode 4, 20000 for mode 8
CappedModes == {0, 4, 8}
Ceiling(mode) == Fin((IF mode = 8 THEN 20000 ELSE 55000) * Scale)

\* C10: with apply_pp_cap, a value entering the cap stage above the ceiling of mode
\* 0, 4 or 8 is returned as exactly the ceiling and no rating of these modes exceeds
\* it; in the other modes and without apply_pp_cap the value is not clamped.
C10_CapEnforced ==
    Rated =>
        LET r == cpOut.results[1]
            mode == cpIn.scores[1].mode
        IN  IF cpIn.apply_pp_cap /\ mode \in CappedModes
            THEN /\ FGt(r.pre_cap, Ceiling(mode)) => r.pp = Ceiling(mode)
                 /\ ~FGt(r.pp, Ceiling(mode))
            ELSE r.post_cap = r.pre_cap

\* a finite value above 20000 entered the cap stage of mode 8 and 20000 came back
C10_ClampedInMode8 ==
    /\ Rated
    /\ cpIn.apply_pp_cap
    /\ cpIn.scores[1].mode = 8
    /\ cpOut.results[1].pre_cap.k = "fin"
    /\ FGt(cpOut.results[1].pre_cap, Ceiling(8))
    /\ cpOut.results[1].pp = Ceiling(8)

\* the multiplier of the band of a map of L seconds
LengthBand(L) ==
    IF L < 60 THEN 9000
    ELSE IF L < 180 THEN Scale
    ELSE IF L < 240 THEN 10500
    ELSE IF L < 300 THEN 11000
    ELSE 11500

\* C11: the length stage multiplies by 0.90 below 60 s, by nothing from 60 s, by
\* 1.05 from 180 s, by 1.10 from 240 s and by 1.15 from 300 s; without a length it
\* changes nothing.
C11_LengthBands ==
    /\ Rated =>
        LET r == cpOut.results[1]
        IN  r.pre_cap = IF cpIn.map_length = None THEN r.pre_length
                        ELSE FMul(r.pre_length, LengthBand(cpIn.map_length.v))
    /\ Persisted =>
        cpOut.trace.pre_cap = FMul(cpOut.trace.pre_length, LengthBand(cpIn.score.total_length))

\* a map of exactly 240 s got the 1.10 of its band, not the 1.05 of the band below
C11_At240 ==
    /\ Rated
    /\ cpIn.map_length = Some(240)
    /\ cpOut.results[1].pre_length.k = "fin"
    /\ cpOut.results[1].pre_length.v > 0
    /\ cpOut.results[1].pre_cap = FMul(cpOut.results[1].pre_length, 11000)
    /\ cpOut.results[1].pre_cap # FMul(cpOut.results[1].pre_length, 10500)

\* should_nerf_map has returned
Resolved == cpFn = "should_nerf_map" /\ cpOut.status = "returned"

\* a configured pattern occurs in s, whatever the case of the letters on either side
PatternIn(s) ==
    \E p \in 1..Len(NERFED_TITLE_PATTERNS) : Contains(Lower(NERFED_TITLE_PATTERNS[p]), Lower(s))

\* C12: should_nerf_map takes the first category that matches and only that one:
\* a pattern in the title or the artist gives 0.85; else a mapset id of the override
\* set gives 0.85; else a mapper of the table gives the mapper's multiplier (as it
\* is, or compounded once for relax); else 1.0.
C12_FirstMatchWins ==
    Resolved =>
        IF PatternIn(cpIn.title) \/ PatternIn(cpIn.artist) THEN cpOut.multiplier = 8500
        ELSE IF cpIn.set_id \in NERFED_MAPSET_IDS THEN cpOut.multiplier = 8500
        ELSE IF cpIn.creator \in DOMAIN MAPPER_NERFS
        THEN cpOut.multiplier \in {MAPPER_NERFS[cpIn.creator],
                                   MulDiv(MAPPER_NERFS[cpIn.creator], 8500, Scale)}
        ELSE cpOut.multiplier = Scale

\* a map with a pattern in its title, by a mapper of the table, got 0.85 and not
\* the mapper's 0.40
C12_PatternBeforeMapper ==
    /\ Resolved
    /\ PatternIn(cpIn.title)
    /\ cpIn.creator = "Learner_"
    /\ cpIn.mods = 0
    /\ cpOut.multiplier = 8500

\* C13: relax compounds only on the mapper branch: a mapper of base B gives
\* B * 0.85 with the relax bit and B without (0.75 gives 0.6375); a pattern or a
\* mapset id gives 0.85 with and without relax.
C13_RelaxCompoundsOnMapperOnly ==
    Resolved =>
        LET relax == HasBit(cpIn.mods, 128)
        IN  /\ (PatternIn(cpIn.title) \/ PatternIn(cpIn.artist)
                    \/ cpIn.set_id \in NERFED_MAPSET_IDS)
                => cpOut.multiplier = 8500
            /\ (/\ ~PatternIn(cpIn.title)
                /\ ~PatternIn(cpIn.artist)
                /\ cpIn.set_id \notin NERFED_MAPSET_IDS
                /\ cpIn.creator \in DOMAIN MAPPER_NERFS)
                => cpOut.multiplier = IF relax
                                      THEN (MAPPER_NERFS[cpIn.creator] * 85) \div 100
                                      ELSE MAPPER_NERFS[cpIn.creator]

\* a mapper of base 0.75, under relax with double time, gave 0.6375
C13_Relax6375 ==
    /\ Resolved
    /\ cpIn.creator = "hool"
    /\ cpIn.mods = 192
    /\ ~PatternIn(cpIn.title)
    /\ ~PatternIn(cpIn.artist)
    /\ cpOut.multiplier = 6375

\* the multiplier of the tier of an accuracy a (a percentage, in units of 1/Scale)
AccuracyTier(a) ==
    IF a >= 100 * Scale THEN 13300
    ELSE IF a >= 99 * Scale THEN 13100
    ELSE IF a >= 98 * Scale THEN 12700
    ELSE IF a >= 97 * Scale THEN 12400
    ELSE IF a >= 95 * Scale THEN 11900
    ELSE 11600

\* C14: the multiplier of the accuracy component is the one of the tier of the
\* play's accuracy, for every accuracy, 0 included: 1.33 from 100, 1.31 from 99,
\* 1.27 from 98, 1.24 from 97, 1.19 from 95, 1.16 below.
C14_AccuracyTiers ==
    /\ (Rated /\ cpIn.scores[1].acc # None)
        => cpOut.results[1].acc_multiplier = AccuracyTier(cpIn.scores[1].acc.v)
    /\ Persisted => cpOut.trace.acc_multiplier = AccuracyTier(cpIn.score.acc.v)

\* a second call of calculate_performances has ended
CalledAgain == cpFn = "calculate_performances_again"

\* C15: two calls of calculate_performances with identical inputs end the same way
\* and return the identical rounded ratings, also when the second call is given the
\* very ScoreParams objects that were passed to the first.
C15_Deterministic ==
    CalledAgain =>
        /\ cpOut.second.status = cpOut.first.status
        /\ Len(cpOut.second.results) = Len(cpOut.first.results)
        /\ \A i \in 1..Len(cpOut.first.results) :
            cpOut.second.results[i].pp = cpOut.first.results[i].pp

\* a score played with NC and without DT was rated twice through the same object
C15_NightcoreObjectReused ==
    /\ CalledAgain
    /\ cpOut.reuse
    /\ cpIn.scores[1].mods = Some(NIGHTCORE)
    /\ cpOut.first.scores[1].mods # cpIn.scores[1].mods
    /\ cpOut.second.status = "returned"
    /\ cpOut.second.results[1].pp.k = "fin"
    /\ cpOut.second.results[1].pp.v > 0

\* C16: calculate_performances leaves its inputs as they were: after the call every
\* field of every ScoreParams the caller passed, mods in particular, has the value
\* it had before the call.
C16_InputsUnchanged ==
    cpFn = "calculate_performances" => cpOut.scores = cpIn.scores

\* recalculate_user has run on a player with at least one best score
Aggregated == cpFn = "recalculate_user" /\ Len(cpIn.best_scores) >= 1

\* column col of the i-th best score, 0 past the last one (in units of 1/Scale)
BestOr0(best_scores, col, i) ==
    IF i <= Len(best_scores) THEN best_scores[i][col].v ELSE 0

\* sum_i x[i] * 0.95^i over up to three best scores, term by term
Weighted3(best_scores, col) ==
    BestOr0(best_scores, col, 1)
    + MulDiv(BestOr0(best_scores, col, 2), 9500, Scale)
    + MulDiv(BestOr0(best_scores, col, 3), 9025, Scale)

\* 416.6667 * (1 - 0.9994^n) for n = 1, 2, 3: 0.2500, 0.4998, 0.7495
Bonus3(n) == IF n = 1 THEN 2500 ELSE IF n = 2 THEN 4998 ELSE 7495

\* 20 * (1 - 0.95^n) for n = 1, 2, 3: 1, 1.95, 2.8525
AccDivisor3(n) == IF n = 1 THEN 10000 ELSE IF n = 2 THEN 19500 ELSE 28525

Distance(x, y) == IF x >= y THEN x - y ELSE y - x

\* the two best scores of the example: ratings 1000 and 500, accuracies 99 and 98
ExampleBest ==
    <<[pp |-> Fin(1000 * Scale), acc |-> Fin(99 * Scale)],
      [pp |-> Fin(500 * Scale), acc |-> Fin(98 * Scale)]>>

\* C17: for a player with n >= 1 best scores, in descending order of rating, the
\* rating stored is the integer nearest to sum_i rating[i] * 0.95^i
\* + 416.6667 * (1 - 0.9994^n) and the accuracy stored is
\* (sum_i acc[i] * 0.95^i) / (20 * (1 - 0.95^n)), up to the last digit kept; ratings
\* 1000 and 500 with accuracies 99 and 98 give 1475 and 98.513.
C17_AggregateFormula ==
    Aggregated =>
        LET n == Len(cpIn.best_scores)
            stored == cpOut.stats
        IN  /\ stored.exists
            /\ stored.pp.k = "int"
            /\ 2 * Distance(stored.pp.v * Scale,
                            Weighted3(cpIn.best_scores, "pp") + Bonus3(n)) <= Scale + 8
            /\ stored.acc.k = "fin"
            /\ Distance(stored.acc.v,
                        MulDiv(Weighted3(cpIn.best_scores, "acc"), Scale, AccDivisor3(n))) <= 2
            /\ cpIn.best_scores = ExampleBest
                => stored.pp = Some(1475) /\ Round3(stored.acc) = Fin(985130)

\* the example was aggregated and stored
C17_ExampleStored ==
    /\ Aggregated
    /\ cpIn.best_scores = ExampleBest
    /\ cpOut.stats.pp = Some(1475)
    /\ Round3(cpOut.stats.acc) = Fin(985130)

(***************************************************************************)
(* Properties of the user phase.                                           *)
(***************************************************************************)
Unrestricted(u) == HasBit(DB_users(u).priv, UNRESTRICTED)

\* the task of user u in the i-th mode has completed after an upsert
UserCompleted(i, u) ==
    /\ userTask[i][u].st = "done"
    /\ userTask[i][u].total_scores >= 1

\* C18: a player's rating is written to the leaderboard exactly when the player is
\* unrestricted: once the task of an unrestricted player has completed, the
\* player's member holds, under the mode's global key and under the mode's country
\* key, the integer rating upserted into stats, whatever it held before; no key
\* ever gets a member for a restricted player.
C18_LeaderboardIffUnrestricted ==
    \A u \in UserIds :
        IF Unrestricted(u)
        THEN \A i \in ModeIdx :
                UserCompleted(i, u) =>
                    /\ stats[i][u].pp = Some(userTask[i][u].pp)
                    /\ redis[<<args_mode[i], "">>][u] = stats[i][u].pp
                    /\ redis[<<args_mode[i], DB_users(u).country>>][u] = stats[i][u].pp
        ELSE \A key \in RedisKeys : redis[key][u] = InitialRedis[key][u]

\* an unrestricted player's task has completed over a member the leaderboard held
\* before, and a restricted player's task has completed after its upsert
C18_BothKindsCompleted ==
    \E i \in ModeIdx, u, r \in UserIds :
        /\ Unrestricted(u)
        /\ UserCompleted(i, u)
        /\ InitialRedis[<<args_mode[i], "">>][u] # None
        /\ redis[<<args_mode[i], "">>][u] # InitialRedis[<<args_mode[i], "">>][u]
        /\ redis[<<args_mode[i], DB_users(u).country>>][u] = stats[i][u].pp
        /\ ~Unrestricted(r)
        /\ UserCompleted(i, r)
        /\ stats[i][r].exists

\* user u has no best score on a ranked or approved map in the i-th mode (which
\* scores are selected does not depend on their ratings)
NoBestScore(i, u) == Len(SelectBestScores(u, args_mode[i], scores_pp)) = 0

\* C19: for a player without any best score on a ranked or approved map in a mode,
\* recalculate_user writes nothing: the player's stats row of the mode is neither
\* created nor changed, no leaderboard key of the mode gets or changes the
\* player's member, and no change-log entry is appended for the player and mode.
C19_NoBestScoreWritesNothing ==
    \A i \in ModeIdx, u \in UserIds :
        NoBestScore(i, u) =>
            /\ stats[i][u] = InitialStats[i][u]
            /\ \A c \in Countries \cup {""} :
                redis[<<args_mode[i], c>>][u] = InitialRedis[<<args_mode[i], c>>][u]
            /\ \A k \in 1..Len(user_changes) :
                ~(user_changes[k].user_id = u /\ user_changes[k].mode = args_mode[i])

\* the tasks of two players without best scores have completed: one who had a
\* stats row and a leaderboard member before, one who had none
C19_NoBestScoreCompleted ==
    \E i \in ModeIdx, u, v \in UserIds :
        /\ NoBestScore(i, u)
        /\ userTask[i][u].st = "done"
        /\ stats[i][u].exists
        /\ redis[<<args_mode[i], "">>][u] # None
        /\ NoBestScore(i, v)
        /\ userTask[i][v].st = "done"
        /\ ~stats[i][v].exists

(***************************************************************************)
(* Properties of the order of the phases.                                  *)
(***************************************************************************)
\* every score of the i-th mode has been through its chunk
ScoresOver(i) ==
    \A s \in ScoreIds : DB_scores(s).mode = args_mode[i] => Completed(scoreTask[s].st)

\* every user has been through its chunk of the i-th mode
UsersOver(i) == \A u \in UserIds : Completed(userTask[i][u].st)

\* the phases of the i-th mode that were asked for are over
ModeOver(i) ==
    /\ ~args.no_scores => ScoresOver(i)
    /\ ~args.no_stats => UsersOver(i)

\* a task of the i-th mode exists
ModeBegun(i) ==
    \/ \E s \in ScoreIds : DB_scores(s).mode = args_mode[i] /\ scoreTask[s].st # "none"
    \/ \E u \in UserIds : userTask[i][u].st # "none"

\* C20: with both phases enabled, no user task of a mode exists, and so no
\* aggregate of the mode is computed, before every score chunk of the mode has
\* completed; the modes are processed one after the other in the order requested;
\* and the run ends only after the phases asked for are over for every mode.
C20_PhasesInOrder ==
    \A i \in ModeIdx :
        /\ (~args.no_scores /\ ~args.no_stats /\ \E u \in UserIds : userTask[i][u].st # "none")
            => ScoresOver(i)
        /\ \A j \in ModeIdx : (i < j /\ ModeBegun(j)) => ModeOver(i)
        /\ main.pc = "done" => ModeOver(i)

\* with both phases enabled, the users of the second mode are being processed after
\* the two score chunks and the aggregates of the first mode and the scores of the
\* second
C20_SecondModeUsers ==
    /\ ~args.no_scores
    /\ ~args.no_stats
    /\ main.mode = 2
    /\ main.pc = "user_gather"
    /\ \E u \in UserIds : userTask[2][u].st = "fetching"
    /\ \E s \in ScoreIds : DB_scores(s).mode = args_mode[2] /\ scoreTask[s].st = "done"
    /\ \E s, t \in ScoreIds :
        /\ DB_scores(s).mode = args_mode[1]
        /\ DB_scores(t).mode = args_mode[1]
        /\ scoreTask[s].st = "done"
        /\ scoreTask[t].st = "done"
        /\ s + ChunkSize <= t
    /\ \E u \in UserIds : UserCompleted(1, u)

(***************************************************************************)
(* Properties of the score phase.                                          *)
(***************************************************************************)
\* the file of the beatmap of score s is reported unavailable in this run
Unavailable(s) == faults.kind = "unavailable" /\ faults.target = s

\* C21: a score whose beatmap file is reported unavailable is skipped for the rest
\* of the run: no task is created for it, its stored rating is not written, no
\* score is reported as failed, no change-log entry is appended for it, and the
\* other scores of its mode are still recalculated and persisted.
C21_UnavailableSkipped ==
    \A s \in ScoreIds :
        Unavailable(s) =>
            /\ scoreTask[s].st \in {"none", "skipped"}
            /\ scores_pp[s] = InitialPP(s)
            /\ \A t \in ScoreIds : scoreTask[t].st # "failed"
            /\ main.exc # "score_task"
            /\ \A k \in 1..Len(score_changes) : score_changes[k].score_id # s
            /\ ScorePhaseOver =>
                \A i \in 1..Len(main.scores) :
                    main.scores[i].id # s =>
                        /\ scoreTask[main.scores[i].id].st = "done"
                        /\ scores_pp[main.scores[i].id] = FaultFreePP(main.scores[i])

\* the score phase of a mode is over: a score of the first chunk was skipped and
\* the other score of that chunk was recalculated and logged
C21_SkippedBesideDone ==
    /\ ScorePhaseOver
    /\ \E i, j \in 1..Len(main.scores) :
        /\ i # j
        /\ ChunkOf(i) = ChunkOf(j)
        /\ Unavailable(main.scores[i].id)
        /\ scoreTask[main.scores[i].id].st = "skipped"
        /\ scoreTask[main.scores[j].id].st = "done"
        /\ \E k \in 1..Len(score_changes) : score_changes[k].score_id = main.scores[j].id

\* C22: whenever recalculate_score has caught an exception and reported the score
\* as failed, the score's stored rating is the one it had before the attempt,
\* wherever in recalculate_score the exception was raised.
C22_FailedKeepsRating ==
    \A s \in ScoreIds : scoreTask[s].st = "failed" => scores_pp[s] = snap.scores_pp[s]

\* C23: within one run each beatmap id is parsed at most once: a score whose
\* map is absent from the cache parses the file and stores the object under the
\* map's id, every later score on the map (of the same chunk, of a later chunk or
\* of a later mode) finds that object, and an entry is never replaced or evicted
\* during the run.
C23_ParsedOnce ==
    /\ [](\A m \in MapIds : beatmaps[m] # 0 => DB_scores(beatmaps[m]).map_id = m)
    /\ [](\A s \in ScoreIds :
            (scoreTask[s].st \in {"updating", "done"}) => beatmaps[DB_scores(s).map_id] # 0)
    /\ [][run' = run => \A m \in MapIds : beatmaps[m] # 0 => beatmaps'[m] = beatmaps[m]]_vars

\* the second mode is over: both scores of its first chunk are on one map, parsed
\* by one of them, and the score of its second chunk is on a map that a score of
\* the first mode had parsed
C23_SharedAcrossChunkAndModes ==
    /\ main.mode = 2
    /\ main.phase = "users"
    /\ \E s, t, x, y \in ScoreIds :
        /\ s # t
        /\ DB_scores(s).mode = args_mode[2]
        /\ DB_scores(t).mode = args_mode[2]
        /\ DB_scores(s).map_id = DB_scores(t).map_id
        /\ scoreTask[s].st = "done"
        /\ scoreTask[t].st = "done"
        /\ beatmaps[DB_scores(s).map_id] \in {s, t}
        /\ DB_scores(x).mode = args_mode[2]
        /\ DB_scores(y).mode = args_mode[1]
        /\ scoreTask[x].st = "done"
        /\ beatmaps[DB_scores(x).map_id] = y

\* the rows of stats that a step changes
StatsRowsChanged == {<<i, u>> \in ModeIdx \X UserIds : stats'[i][u] # stats[i][u]}

\* C24: the upsert of recalculate_user creates the row of the player and mode when
\* it is absent (the other columns 0) and otherwise overwrites pp, acc and plays
\* only: every other column of an existing row, and every row of another player
\* or mode, is left as it was.
C24_UpsertFrame ==
    [][/\ Cardinality(StatsRowsChanged) <= 1
       /\ \A i \in ModeIdx, u \in UserIds :
            <<i, u>> \in StatsRowsChanged =>
                /\ i = main.mode
                /\ userTask[i][u].st = "upserting"
                /\ stats'[i][u].exists
                /\ stats'[i][u].pp = Some(userTask[i][u].pp)
                /\ stats'[i][u].acc = userTask[i][u].acc
                /\ stats'[i][u].plays = userTask[i][u].total_scores
                /\ stats'[i][u].other = IF stats[i][u].exists THEN stats[i][u].other ELSE 0]_vars

\* a row that existed was overwritten and kept its other columns, and a row that
\* did not exist was created
C24_OverwrittenAndCreated ==
    \E i, j \in ModeIdx, u, v \in UserIds :
        /\ InitialStats[i][u].exists
        /\ InitialStats[i][u].other # 0
        /\ stats[i][u].pp # InitialStats[i][u].pp
        /\ stats[i][u].plays # InitialStats[i][u].plays
        /\ stats[i][u].other = InitialStats[i][u].other
        /\ ~InitialStats[j][v].exists
        /\ stats[j][v].exists
        /\ stats[j][v].other = 0

(***************************************************************************)
(* Properties of the pipeline before the policy stages.                    *)
(***************************************************************************)
\* 1.25 * (m_aim * aim + m_speed * speed + m_fl * flashlight
\*         + m_acc * max(0, total - aim - speed - flashlight))
\* for the engine's values (a missing one counts as 0)
Recombined(attrs, relax, m_acc) ==
    LET aim == OrZero(attrs.pp_aim)
        speed == OrZero(attrs.pp_speed)
        flashlight == OrZero(attrs.pp_flashlight)
        total == OrZero(attrs.pp)
        m_aim == IF relax THEN 13500 ELSE 11000
        m_speed == IF relax THEN 11000 ELSE 12000
        m_fl == IF relax THEN 7500 ELSE 7000
        rest == PyMax(Fin(0), FSub(total, FAdd(FAdd(aim, speed), flashlight)))
    IN  FMul(FAdd(FAdd(FAdd(FMul(aim, m_aim), FMul(speed, m_speed)), FMul(flashlight, m_fl)),
                  FMul(rest, m_acc)),
             12500)

\* the tier multiplier of an accuracy; an accuracy that is not given counts as 100
TierOf(acc) == IF acc = None THEN 13300 ELSE AccuracyTier(acc.v)

\* C25: before the policy stages the rating is 1.25 * (m_aim * aim + m_speed * speed
\* + m_fl * flashlight + m_acc * max(0, total - aim - speed - flashlight)) over the
\* engine's values, with (1.35, 1.10, 0.75) under relax and (1.10, 1.20, 0.70)
\* otherwise, and m_acc the multiplier of the tier of the play's accuracy.
C25_Recombination ==
    /\ Rated =>
        cpOut.results[1].pre_policy =
            Recombined(cpIn.attrs, HasBit(OrZero(cpIn.scores[1].mods).v, 128),
                       TierOf(cpIn.scores[1].acc))
    /\ Persisted =>
        cpOut.trace.pre_policy =
            Recombined(cpIn.attrs, HasBit(cpIn.score.mods, 128), TierOf(cpIn.score.acc))

\* C26: the pipeline inlined in recalculate_score matches calculate_performances:
\* for every stored score the rating the batch persists is the rating that
\* calculate_performances returns for the score's hit counts, mods, map metadata,
\* length and player id with the cap on.
C26_BatchMatchesCalculator ==
    cpFn = "recalculate_score_and_calculate" =>
        /\ cpOut.calculated.status = "returned"
        /\ cpOut.calculated.results[1].pp = cpOut.persisted

\* floor(nmiss * 1.05) under relax, nmiss otherwise
MissesHanded(nmiss, relax) == IF relax THEN (nmiss * 105) \div 100 ELSE nmiss

\* C27: the miss count handed to the engine is floor(nmiss * 1.05) when the relax
\* bit is set in the score's mods and nmiss itself otherwise: an integer, never
\* smaller than nmiss, and nmiss itself for every nmiss below 20.
C27_MissesHanded ==
    /\ (Rated /\ cpIn.scores[1].nmiss # None) =>
        LET nmiss == cpIn.scores[1].nmiss.v
            handed == cpOut.results[1].engine_misses
        IN  /\ handed = Some(MissesHanded(nmiss, HasBit(OrZero(cpIn.scores[1].mods).v, 128)))
            /\ handed.v >= nmiss
            /\ nmiss < 20 => handed.v = nmiss
    /\ Persisted =>
        LET nmiss == cpIn.score.nmiss
            handed == cpOut.trace.engine_misses
        IN  /\ handed = Some(MissesHanded(nmiss, HasBit(cpIn.score.mods, 128)))
            /\ handed.v >= nmiss
            /\ nmiss < 20 => handed.v = nmiss


(***************************************************************************)
(* get_api_key_user and its update_last_used task.                         *)
(***************************************************************************)
\* get_api_key_user of request r has created its task and is over
AuthOverWithTask(r) == lastUsed[r] # "none" /\ authReq[r].auth # "pending"

\* C28: what get_api_key_user comes to after creating the update_last_used task (the
\* user's row returned, or 401 when the user has no row) is decided by the users
\* table alone, whether the task has succeeded, failed or not run yet; two requests
\* with the same key come to the same whatever became of their tasks; and a request
\* whose user lookup is pending can always go on, whatever state its task is in
C28_OutcomeIgnoresTask ==
    /\ \A r \in ReqIds :
        AuthOverWithTask(r) =>
            LET user_data == users_fetch_one(authReq[r].key_data.user_id)
            IN  /\ authReq[r].auth = IF user_data = None THEN "401" ELSE "user"
                /\ authReq[r].user = user_data
    /\ \A r1, r2 \in ReqIds :
        (/\ AuthOverWithTask(r1)
         /\ AuthOverWithTask(r2)
         /\ authReq[r1].authorization = authReq[r2].authorization) =>
            /\ authReq[r1].auth = authReq[r2].auth
            /\ authReq[r1].user = authReq[r2].user
    /\ \A r \in ReqIds :
        authReq[r].pc = "fetch_user" => ENABLED AuthFetchUser(r)

\* two requests with the same key were given the user, the task of one failed and
\* the task of the other has not run
C28_SameUserTaskFailedAndPending ==
    \E r1, r2 \in ReqIds :
        /\ authReq[r1].authorization = authReq[r2].authorization
        /\ authReq[r1].auth = "user" /\ authReq[r2].auth = "user"
        /\ authReq[r1].pc = "done" /\ authReq[r2].pc = "done"
        /\ lastUsed[r1] = "failed" /\ lastUsed[r2] = "pending"


(***************************************************************************)
(* Revoked and expired keys.                                               *)
(***************************************************************************)
\* the hash get_api_key_user looks request r's key up by
HashOf(r) == hash_api_key(GAKU_api_key(authReq[r].authorization))

\* the key of request r is in api_keys and its expires_at is earlier than time t
KeyExpiredAt(r, t) ==
    /\ FoundByHash(HashOf(r))
    /\ LET key_data == FetchByHash(HashOf(r))
       IN  key_data.expires_at # None /\ key_data.expires_at.v < t

\* the key of request r is in api_keys and is revoked, or expired at time t
KeyDeadAt(r, t) ==
    \/ FoundByHash(HashOf(r)) /\ FetchByHash(HashOf(r)).revoked
    \/ KeyExpiredAt(r, t)

\* get_api_key_user turned request r down: 401, no task, no user data
TurnedDown(r) ==
    /\ authReq[r].auth = "401"
    /\ authReq[r].response = 401
    /\ authReq[r].user = None
    /\ lastUsed[r] = "none"

\* C29: when get_api_key_user reads a key that is revoked or whose expires_at is
\* earlier than now, it raises 401 with no update_last_used task created and no user
\* data; no step clears a row's revoked flag or removes a row; so a request that
\* arrives when its key is already revoked, or already expired, is turned down
C29_DeadKeyRejected ==
    /\ [][\A r \in ReqIds :
            (/\ authReq[r].pc = "fetch_key"
             /\ authReq'[r].pc # "fetch_key"
             /\ KeyDeadAt(r, now)) =>
                /\ authReq'[r].auth = "401"
                /\ authReq'[r].response = 401
                /\ authReq'[r].user = None
                /\ lastUsed'[r] = "none"]_vars
    /\ [][/\ Len(api_keys') >= Len(api_keys)
          /\ \A i \in 1..Len(api_keys) :
                api_keys[i].revoked => api_keys'[i].revoked]_vars
    /\ [](\A r \in ReqIds :
            (/\ authReq[r].pc \notin {"new", "fetch_key"}
             /\ GAKU_is_api_key(authReq[r].authorization)
             /\ (authReq[r].was_revoked \/ KeyExpiredAt(r, authReq[r].began))) =>
                TurnedDown(r))

\* one request revoked key 1 and was answered 200, the other then arrived with
\* key 1 and was turned down as revoked
C29_RevokedThenRejected ==
    \E r1, r2 \in ReqIds :
        /\ authReq[r1].endpoint = "revoke" /\ authReq[r1].response = 200
        /\ authReq[r1].key_id = 1
        /\ authReq[r2].authorization = Bearer(PlainKey("k1"))
        /\ authReq[r2].was_revoked
        /\ authReq[r2].detail = "API key has been revoked"
        /\ TurnedDown(r2)


(***************************************************************************)
(* The token cache.                                                        *)
(***************************************************************************)
\* a cached token exists and time t is strictly before its expires_at
StillGood(token, t) == token.cached /\ t < token.expires_at

\* C30: a call returns the cached access token, sending no token request, exactly
\* when a cached token exists and now is strictly before its expires_at; otherwise
\* (with the client id and secret configured) it sends the request; an answered
\* request replaces the cache by the new token with expires_at = now + expires_in
\* - 300 (expires_in 86400 when the answer has none) and returns that token; a
\* failed request leaves the cache as it is; and, however the callers interleave, no
\* caller is returned a token that the cache held, with its expires_at already
\* reached, when the caller looked
C30_TokenCache ==
    /\ [][\A c \in CallerIds :
            (tokenCall[c].pc = "new" /\ tokenCall'[c].pc # "new") =>
                /\ (tokenCall'[c].outcome = "cached") <=> StillGood(oauth_token, now)
                /\ StillGood(oauth_token, now) =>
                    /\ tokenCall'[c].returned = Some(oauth_token.access_token)
                    /\ ~tokenCall'[c].posted
                    /\ tokenCall'[c].pc = "done"
                    /\ oauth_token' = oauth_token
                /\ (~StillGood(oauth_token, now) /\ tokenCall'[c].configured) =>
                    /\ tokenCall'[c].posted
                    /\ tokenCall'[c].pc = "posting"]_vars
    /\ [][\A c \in CallerIds :
            (tokenCall[c].pc = "posting" /\ tokenCall'[c].pc = "done") =>
                IF tokenCall'[c].outcome = "fetched"
                THEN LET expires_in == IF tokenCall'[c].expires_in = None THEN 86400
                                       ELSE tokenCall'[c].expires_in.v
                     IN  /\ oauth_token'.cached
                         /\ oauth_token'.expires_at = now + expires_in - 300
                         /\ oauth_token'.access_token # oauth_token.access_token
                         /\ tokenCall'[c].returned = Some(oauth_token'.access_token)
                ELSE /\ oauth_token' = oauth_token
                     /\ tokenCall'[c].returned = None]_vars
    /\ [](\A c \in CallerIds :
            (tokenCall[c].pc = "done" /\ tokenCall[c].returned # None) =>
                ~(/\ tokenCall[c].saw.cached
                  /\ tokenCall[c].saw.access_token = tokenCall[c].returned.v
                  /\ tokenCall[c].saw.expires_at <= tokenCall[c].checked))

\* one caller fetched a token into the empty cache, another was returned it from the
\* cache, and a third found it expired and fetched the next
C30_FetchedCachedRefetched ==
    \E c1, c2, c3 \in CallerIds :
        /\ tokenCall[c1].outcome = "fetched" /\ ~tokenCall[c1].saw.cached
        /\ tokenCall[c2].outcome = "cached"
        /\ tokenCall[c2].returned = tokenCall[c1].returned
        /\ tokenCall[c3].outcome = "fetched"
        /\ tokenCall[c3].saw.cached
        /\ tokenCall[c3].saw.access_token = tokenCall[c1].returned.v
        /\ tokenCall[c3].saw.expires_at = tokenCall[c3].checked
        /\ tokenCall[c3].returned # tokenCall[c1].returned

====
